---- MODULE Spec2Model ----
(***************************************************************************)
(* The in-memory periodic task scheduler of crawler/pkg/scheduler          *)
(* (inMemoryScheduler): the task map, the cancel-function map, the         *)
(* running flag, the wait group, the lock, and one goroutine per started   *)
(* task loop.                                                              *)
(*                                                                         *)
(* AddTask, RemoveTask and Start hold s.mu from entry to return and never  *)
(* block inside, so each is one atomic step.  Stop holds s.mu while it     *)
(* blocks in wg.Wait(), so it is two steps: StopBegin (lock, flag, cancel, *)
(* clear) and StopReturn (Wait returned, unlock).  A task loop is a        *)
(* goroutine; its steps interleave freely with the callers' steps.         *)
(*                                                                         *)
(* The in-memory cache of crawler/pkg/cache (MemoryCache): the entry map,  *)
(* the clock its expirations are compared with, and the gc goroutine that  *)
(* sweeps expired entries.  Get, Set, Delete and Clear hold c.mu from      *)
(* entry to return, so each is one atomic step.                            *)
(*                                                                         *)
(* The engine of crawler/pkg/crawler (engineImpl) over both, and the       *)
(* worker pool of coroutine (CoroutinePool).                               *)
(*                                                                         *)
(* The specifications share the variables: Spec moves the scheduler,       *)
(* CacheSpec the cache, EngineSpec, FanoutSpec and OverlapSpec the         *)
(* engine's fetch path with its cache and subscribers, LifecycleSpec the   *)
(* engine's registry and lifecycle calls with its scheduler, made one      *)
(* after the other, ConcurrentSpec a Start, a Stop and a RegisterSource    *)
(* call made at the same time (ConcurrentFairSpec adds that every          *)
(* goroutine that can take a step does), PoolSpec the worker pool; each    *)
(* leaves the other components as constructed.                             *)
(***************************************************************************)
EXTENDS Integers, Sequences, FiniteSets, TLC

\* ---------------------------------------------------------------- bounds
\* Total number of task loops (goroutines) ever started.
MaxLoops == 2
\* Number of ticks each loop receives from its ticker.
MaxTicks == 1

\* Last value of the clock.
MaxTime == 4
\* Capacity of each subscriber channel.
QueueCap == 1
\* Longest subscriber slice of a source name.
MaxSubs == 2

\* p.maxWorkers of the pool.
MaxWorkers == 2
\* Longest works slice given to Execute.
MaxWorks == 3

\* Task identifiers and intervals (seconds; time.NewTicker needs > 0).
TaskIds == {"a", "b"}
Intervals == {1, 2}

\* A Task value: ID() and Interval(); two tasks with the same id and
\* different intervals are different task objects.
Task == [id : TaskIds, interval : Intervals]

VARIABLES
    tasks,      \* s.tasks    : id -> Task
    taskCtxs,   \* s.taskCtxs : id -> the loop whose context the stored cancel function cancels
    running,    \* s.running
    wg,         \* s.wg counter
    mu,         \* s.mu : "free", or "Stop" while Stop holds it across wg.Wait()
    loops,      \* the goroutines started by startTask, in start order
    ret,        \* the error value of the last call that returned
    items,      \* c.items : key -> item{value, expiration}
    now,        \* time.Now().UnixNano(), in clock units
    closed,     \* c.stopChan is closed
    gc,         \* the gc goroutine: [pc, now], now being the time deleteExpired read
    lastSet,    \* history: key -> time and duration of the last Set of the key
    sources,    \* e.sources : name -> Source
    subscribers,\* e.subscribers : name -> slice header [arr, len]
    arrays,     \* the backing arrays of the subscriber slices, in allocation order
    queues,     \* the subscribers' channels: target -> queued batches
    calls,      \* the FetchItem call and the scheduled execution in progress
    eret,       \* what the last engine call returned: [err, items]
    scheduled,  \* the sources a crawlTask has been or can be created for
    fanout,     \* history of the fan-out in progress: caller -> [stable, offered]
    erunning,   \* e.running
    ecancelled, \* e.cancel() has been called: e.ctx is cancelled
    ecalls,     \* the Engine.Start, Engine.Stop and RegisterSource calls in progress
    works,      \* the works slice given to Execute: index -> what the work function returns
    results,    \* p.results: index -> Result
    workChan,   \* the work channel: [buf, closed]
    doneChan,   \* doneChan is closed
    ctxDone,    \* the context given to Execute is cancelled
    pwg,        \* the wait group of Execute
    main,       \* the goroutine that called Execute: [pc, i]
    workers,    \* the worker goroutines: [pc, index]
    watcher,    \* the goroutine that closes the work channel
    ran         \* history: index -> how often the work function was called

schedVars == <<tasks, taskCtxs, running, wg, mu, loops, ret>>
cacheVars == <<items, now, closed, gc, lastSet>>
engineVars == <<sources, subscribers, arrays, queues, calls, eret, scheduled, fanout>>
lifeVars == <<erunning, ecancelled, ecalls>>
poolVars == <<works, results, workChan, doneChan, ctxDone, pwg, main, workers, watcher, ran>>
vars == <<schedVars, cacheVars, engineVars, lifeVars, poolVars>>

\* ---------------------------------------------------------------- errors
ErrTaskExists == "ErrTaskExists"
ErrTaskNotFound == "ErrTaskNotFound"
ErrSchedulerRunning == "ErrSchedulerRunning"
ErrSchedulerStopped == "ErrSchedulerStopped"
NoErr == "nil"
NoId == "-"

\* ---------------------------------------------------------------- helpers
\* map[k] = v
Put(f, k, v) == [i \in (DOMAIN f) \cup {k} |-> IF i = k THEN v ELSE f[i]]
\* delete(map, k)
Del(f, k) == [i \in (DOMAIN f) \ {k} |-> f[i]]
EmptyMap == [i \in {} |-> 0]

LoopIds == 1..Len(loops)

\* A goroutine that has not yet called wg.Done().
Alive(l) == l.pc \in {"first", "exec", "select"}
\* Execute(ctx) of the loop's task is in progress.
Executing(l) == l.pc = "exec"

\* cancel() of a loop's context.
Cancel(ls, S) == [i \in 1..Len(ls) |-> IF i \in S THEN [ls[i] EXCEPT !.cancelled = TRUE] ELSE ls[i]]

\* The goroutine startTask spawns: it will execute at once, its context is
\* fresh, it has received no tick.  Of the task it captured the model keeps
\* the identifier: Execute is abstract and the ticker's period only decides
\* when ticks come, which SelectTick leaves open.
NewLoop(task) ==
    [id |-> task.id, pc |-> "first", cancelled |-> FALSE,
     execs |-> 0, ticks |-> 0, lastErr |-> FALSE]

\* The goroutine has left the loop (return at case <-taskCtx.Done()): the
\* ticker is stopped and the loop's counters are out of scope; id is still
\* used, by the deferred function.
Returned(id) ==
    [id |-> id, pc |-> "deferred", cancelled |-> TRUE,
     execs |-> 0, ticks |-> 0, lastErr |-> FALSE]

\* startTask on the part of the state it touches: st = [taskCtxs, wg, loops].
startTask(st, task) ==
    [taskCtxs |-> Put(st.taskCtxs, task.id, Len(st.loops) + 1),
     wg       |-> st.wg + 1,
     loops    |-> Append(st.loops, NewLoop(task))]

\* for _, task := range s.tasks { s.startTask(task) }.  The map order only
\* decides the numbering of the new goroutines.
RECURSIVE StartAll(_, _, _)
StartAll(st, ts, ids) ==
    IF ids = {} THEN st
    ELSE LET id == CHOOSE i \in ids : ("a" \in ids) => (i = "a")
         IN  StartAll(startTask(st, ts[id]), ts, ids \ {id})

\* GetTask / ListTasks (pure reads under the read lock).
GetTask(id) == IF id \in DOMAIN tasks THEN [task |-> tasks[id], err |-> NoErr]
               ELSE [task |-> NoId, err |-> ErrTaskNotFound]
ListTasks == {tasks[i] : i \in DOMAIN tasks}

\* ---------------------------------------------------------------- scheduler
\* NewInMemoryScheduler(): empty maps, not running.
NewInMemoryScheduler ==
    /\ tasks = EmptyMap
    /\ taskCtxs = EmptyMap
    /\ running = FALSE
    /\ wg = 0
    /\ mu = "free"
    /\ loops = <<>>
    /\ ret = NoErr

\* Faulty variant: AddTask reports the duplicate but has already stored the task.
AddTask_Overwrite(task) ==
    /\ mu = "free"
    /\ IF task.id \in DOMAIN tasks
       THEN /\ tasks' = Put(tasks, task.id, task)
            /\ ret' = ErrTaskExists
            /\ UNCHANGED <<taskCtxs, running, wg, mu, loops>>
       ELSE /\ tasks' = Put(tasks, task.id, task)
            /\ IF running
               THEN /\ Len(loops) < MaxLoops
                    /\ LET st == startTask([taskCtxs |-> taskCtxs, wg |-> wg, loops |-> loops], task)
                       IN  /\ taskCtxs' = st.taskCtxs
                           /\ wg' = st.wg
                           /\ loops' = st.loops
               ELSE UNCHANGED <<taskCtxs, wg, loops>>
            /\ ret' = NoErr
            /\ UNCHANGED <<running, mu>>

\* Faulty variant: AddTask registers the task and leaves starting it to the next Start.
AddTask_NoStart(task) ==
    /\ mu = "free"
    /\ IF task.id \in DOMAIN tasks
       THEN /\ ret' = ErrTaskExists
            /\ UNCHANGED <<tasks, taskCtxs, running, wg, mu, loops>>
       ELSE /\ tasks' = Put(tasks, task.id, task)
            /\ ret' = NoErr
            /\ UNCHANGED <<taskCtxs, wg, loops, running, mu>>

\* ---------------------------------------------------------------- calls
AddTask(task) ==
    /\ mu = "free"
    /\ IF task.id \in DOMAIN tasks
       THEN /\ ret' = ErrTaskExists
            /\ UNCHANGED <<tasks, taskCtxs, running, wg, mu, loops>>
       ELSE /\ tasks' = Put(tasks, task.id, task)
            /\ IF running
               THEN /\ Len(loops) < MaxLoops
                    /\ LET st == startTask([taskCtxs |-> taskCtxs, wg |-> wg, loops |-> loops], task)
                       IN  /\ taskCtxs' = st.taskCtxs
                           /\ wg' = st.wg
                           /\ loops' = st.loops
               ELSE UNCHANGED <<taskCtxs, wg, loops>>
            /\ ret' = NoErr
            /\ UNCHANGED <<running, mu>>

\* Faulty variant: RemoveTask cancels the loop but forgets delete(s.tasks, id).
RemoveTask_KeepTask(id) ==
    /\ mu = "free"
    /\ IF id \notin DOMAIN tasks
       THEN /\ ret' = ErrTaskNotFound
            /\ UNCHANGED <<tasks, taskCtxs, running, wg, mu, loops>>
       ELSE /\ IF id \in DOMAIN taskCtxs
               THEN /\ loops' = Cancel(loops, {taskCtxs[id]})
                    /\ taskCtxs' = Del(taskCtxs, id)
               ELSE UNCHANGED <<loops, taskCtxs>>
            /\ ret' = NoErr
            /\ UNCHANGED <<tasks, running, wg, mu>>

RemoveTask(id) ==
    /\ mu = "free"
    /\ IF id \notin DOMAIN tasks
       THEN /\ ret' = ErrTaskNotFound
            /\ UNCHANGED <<tasks, taskCtxs, running, wg, mu, loops>>
       ELSE /\ IF id \in DOMAIN taskCtxs
               THEN /\ loops' = Cancel(loops, {taskCtxs[id]})
                    /\ taskCtxs' = Del(taskCtxs, id)
               ELSE UNCHANGED <<loops, taskCtxs>>
            /\ tasks' = Del(tasks, id)
            /\ ret' = NoErr
            /\ UNCHANGED <<running, wg, mu>>

\* Faulty variant: Start without the running check.
Start_NoCheck ==
    /\ mu = "free"
    /\ Len(loops) + Cardinality(DOMAIN tasks) <= MaxLoops
    /\ running' = TRUE
    /\ LET st == StartAll([taskCtxs |-> taskCtxs, wg |-> wg, loops |-> loops],
                          tasks, DOMAIN tasks)
       IN  /\ taskCtxs' = st.taskCtxs
           /\ wg' = st.wg
           /\ loops' = st.loops
    /\ ret' = NoErr
    /\ UNCHANGED <<tasks, mu>>

Start ==
    /\ mu = "free"
    /\ IF running
       THEN /\ ret' = ErrSchedulerRunning
            /\ UNCHANGED <<tasks, taskCtxs, running, wg, mu, loops>>
       ELSE /\ Len(loops) + Cardinality(DOMAIN tasks) <= MaxLoops
            /\ running' = TRUE
            /\ LET st == StartAll([taskCtxs |-> taskCtxs, wg |-> wg, loops |-> loops],
                                  tasks, DOMAIN tasks)
               IN  /\ taskCtxs' = st.taskCtxs
                   /\ wg' = st.wg
                   /\ loops' = st.loops
            /\ ret' = NoErr
            /\ UNCHANGED <<tasks, mu>>

\* Stop up to wg.Wait(): the lock stays held.
StopBegin ==
    /\ mu = "free"
    /\ IF ~running
       THEN /\ ret' = ErrSchedulerStopped
            /\ UNCHANGED <<tasks, taskCtxs, running, wg, mu, loops>>
       ELSE /\ running' = FALSE
            /\ loops' = Cancel(loops, {taskCtxs[i] : i \in DOMAIN taskCtxs})
            /\ taskCtxs' = EmptyMap
            /\ mu' = "Stop"
            /\ UNCHANGED <<tasks, wg, ret>>

\* Faulty variant: Stop returns without waiting for the wait group.
StopReturn_NoWait ==
    /\ mu = "Stop"
    /\ mu' = "free"
    /\ ret' = NoErr
    /\ UNCHANGED <<tasks, taskCtxs, running, wg, loops>>

\* wg.Wait() returns, the deferred Unlock runs, Stop returns nil.
StopReturn ==
    /\ mu = "Stop"
    /\ wg = 0
    /\ mu' = "free"
    /\ ret' = NoErr
    /\ UNCHANGED <<tasks, taskCtxs, running, wg, loops>>

\* Faulty variant: the goroutine goes straight to the select, without the
\* immediate execution.
LoopFirst_Skip(l) ==
    /\ loops[l].pc = "first"
    /\ loops' = [loops EXCEPT ![l].pc = "select"]
    /\ UNCHANGED <<tasks, taskCtxs, running, wg, mu, ret>>

\* ---------------------------------------------------------------- task loop
\* The goroutine starts: NewTicker, then executeTask at once.
LoopFirst(l) ==
    /\ loops[l].pc = "first"
    /\ loops' = [loops EXCEPT ![l].pc = "exec", ![l].execs = @ + 1]
    /\ UNCHANGED <<tasks, taskCtxs, running, wg, mu, ret>>

\* Faulty variant: an error of Execute makes the goroutine return.
ExecReturn_Fatal(l, failed) ==
    /\ loops[l].pc = "exec"
    /\ IF failed
       THEN /\ loops' = [loops EXCEPT ![l] = Returned(@.id)]
            /\ wg' = wg - 1
       ELSE /\ loops' = [loops EXCEPT ![l].pc = "select", ![l].lastErr = FALSE]
            /\ UNCHANGED wg
    /\ UNCHANGED <<tasks, taskCtxs, running, mu, ret>>

\* task.Execute returns; executeTask prints an error and returns.
ExecReturn(l, failed) ==
    /\ loops[l].pc = "exec"
    /\ loops' = [loops EXCEPT ![l].pc = "select", ![l].lastErr = failed]
    /\ UNCHANGED <<tasks, taskCtxs, running, wg, mu, ret>>

\* Faulty variant: one execution at a time for the whole scheduler, a tick
\* is served only when no other loop is executing.
SelectTick_Serial(l) ==
    /\ loops[l].pc = "select"
    /\ loops[l].ticks < MaxTicks
    /\ \A m \in LoopIds : m # l => ~Executing(loops[m])
    /\ loops' = [loops EXCEPT ![l].pc = "exec", ![l].ticks = @ + 1, ![l].execs = @ + 1]
    /\ UNCHANGED <<tasks, taskCtxs, running, wg, mu, ret>>

\* select, case <-ticker.C: a tick of the loop's ticker (one buffered while
\* the task was executing, or one that fires while the loop waits) is
\* received, then executeTask.  When the context is cancelled as well, Go's
\* select picks either ready case.
SelectTick(l) ==
    /\ loops[l].pc = "select"
    /\ loops[l].ticks < MaxTicks
    /\ loops' = [loops EXCEPT ![l].pc = "exec", ![l].ticks = @ + 1, ![l].execs = @ + 1]
    /\ UNCHANGED <<tasks, taskCtxs, running, wg, mu, ret>>

\* select, case <-taskCtx.Done(): return; the deferred function calls
\* wg.Done() and then waits for the lock.
SelectDone(l) ==
    /\ loops[l].pc = "select"
    /\ loops[l].cancelled
    /\ loops' = [loops EXCEPT ![l] = Returned(@.id)]
    /\ wg' = wg - 1
    /\ UNCHANGED <<tasks, taskCtxs, running, mu, ret>>

\* The deferred function gets the lock: delete(s.taskCtxs, id).
LoopCleanup(l) ==
    /\ loops[l].pc = "deferred"
    /\ mu = "free"
    /\ taskCtxs' = Del(taskCtxs, loops[l].id)
    /\ loops' = [loops EXCEPT ![l].pc = "exited"]
    /\ UNCHANGED <<tasks, running, wg, mu, ret>>

\* ---------------------------------------------------------------- cache
\* Cache keys are source names, which are the task identifiers as well.
\* Item lists: a nil and an empty []models.Item are both <<>> (the program
\* only takes their len).
Nil == <<>>
ItemLists == {<<>>, <<"x">>, <<"y">>}
\* time.Duration values passed to Set, in clock units.
Durations == {0, 1, 2}

\* NewMemoryCache(gcInterval): an empty map, the gc goroutine waiting for
\* its ticker; the clock has some positive value.
NewMemoryCache ==
    /\ items = EmptyMap
    /\ now = 1
    /\ closed = FALSE
    /\ gc = [pc |-> "wait", now |-> 0]
    /\ lastSet = EmptyMap

\* Faulty variant: an entry is expired as soon as the clock reaches its
\* expiration.
Get_AtExpiration(key) ==
    IF key \notin DOMAIN items THEN [value |-> Nil, err |-> NoErr]
    ELSE IF items[key].expiration > 0 /\ now >= items[key].expiration
         THEN [value |-> Nil, err |-> NoErr]
         ELSE [value |-> items[key].value, err |-> NoErr]

\* Faulty variant: Get trusts the map and never looks at the expiration.
Get_NoExpiry(key) ==
    IF key \notin DOMAIN items THEN [value |-> Nil, err |-> NoErr]
    ELSE [value |-> items[key].value, err |-> NoErr]

\* Get(key): (nil, nil) when the key is not in the map or its entry has
\* expired, the entry's value otherwise.
Get(key) ==
    IF key \notin DOMAIN items THEN [value |-> Nil, err |-> NoErr]
    ELSE IF items[key].expiration > 0 /\ now > items[key].expiration
         THEN [value |-> Nil, err |-> NoErr]
         ELSE [value |-> items[key].value, err |-> NoErr]

\* Faulty variant: Set keeps the expiration of an entry it replaces.
Set_KeepExpiration(key, value, expiration) ==
    /\ items' = Put(items, key,
                    [value |-> value,
                     expiration |-> IF key \in DOMAIN items THEN items[key].expiration
                                    ELSE IF expiration > 0 THEN now + expiration ELSE 0])
    /\ lastSet' = Put(lastSet, key, [at |-> now, ttl |-> expiration])

\* Set(key, value, expiration): the entry expires at now + expiration when
\* expiration > 0 and never (expiration timestamp 0) otherwise.
Set(key, value, expiration) ==
    /\ items' = Put(items, key,
                    [value |-> value,
                     expiration |-> IF expiration > 0 THEN now + expiration ELSE 0])
    /\ lastSet' = Put(lastSet, key, [at |-> now, ttl |-> expiration])

\* Delete(key)
Delete(key) ==
    /\ items' = Del(items, key)
    /\ UNCHANGED lastSet

\* Clear(): a new empty map.
Clear ==
    /\ items' = EmptyMap
    /\ UNCHANGED lastSet

\* Close(): close(c.stopChan).  A second Close panics and is left out.
Close ==
    /\ ~closed
    /\ closed' = TRUE
    /\ UNCHANGED <<items, now, gc, lastSet>>

\* gc, case <-c.gcTicker.C: deleteExpired starts and reads the clock,
\* before it asks for the lock.
gcTick ==
    /\ gc.pc = "wait"
    /\ gc' = [pc |-> "sweep", now |-> now]
    /\ UNCHANGED <<items, now, closed, lastSet>>

\* Faulty variant: the sweep also deletes an entry at its expiration
\* timestamp, which Get still returns.
deleteExpired_AtExpiration ==
    /\ gc.pc = "sweep"
    /\ items' = [k \in {j \in DOMAIN items :
                          ~(items[j].expiration > 0 /\ gc.now >= items[j].expiration)}
                    |-> items[k]]
    /\ gc' = [pc |-> "wait", now |-> 0]
    /\ UNCHANGED <<now, closed, lastSet>>

\* deleteExpired under the lock: every entry that had expired at the time
\* read is deleted.
deleteExpired ==
    /\ gc.pc = "sweep"
    /\ items' = [k \in {j \in DOMAIN items :
                          ~(items[j].expiration > 0 /\ gc.now > items[j].expiration)}
                    |-> items[k]]
    /\ gc' = [pc |-> "wait", now |-> 0]
    /\ UNCHANGED <<now, closed, lastSet>>

\* gc, case <-c.stopChan: the ticker is stopped and the goroutine returns.
gcStop ==
    /\ gc.pc = "wait"
    /\ closed
    /\ gc' = [pc |-> "stopped", now |-> 0]
    /\ UNCHANGED <<items, now, closed, lastSet>>

\* The clock advances.
Tick ==
    /\ now < MaxTime
    /\ now' = now + 1
    /\ UNCHANGED <<items, closed, gc, lastSet>>

\* ---------------------------------------------------------------- engine
\* The engine's fetch path (engineImpl): registry, subscriber slices,
\* FetchItem, fetchAndProcess and notifySubscribers, over the cache above.
\* RegisterSource, UnregisterSource, Subscribe and Unsubscribe hold e.mu
\* from entry to return: one step each.  FetchItem and fetchAndProcess hold
\* no lock across the source's Fetch and Parse, the cache call and the
\* sends, so they are several steps.  Of the Scheduler this part keeps the
\* set of sources a crawlTask exists or can come to exist for; its
\* executions are the fetchAndProcess calls.

\* Clock units per second (the program's clock counts nanoseconds).
Second == 2

\* A Source value: GetName() and GetInterval(); Fetch and Parse are the
\* outcomes chosen at SourceFails and SourceYields.
\* The sources ever registered: one name, one interval (seconds).
SourceNames == {"a"}
SourceIntervals == {1}
Source == [name : SourceNames, interval : SourceIntervals]
NoSource == [name |-> NoId, interval |-> 0]

\* Subscriber channels; the zero value of a slot is the nil channel.
Targets == {"t1", "t2"}
NoTarget == "nil"

ErrSourceNotFound == "source not found"
ErrSourceExists == "source already registered"
ErrFetch == "fetch error"
ErrParse == "parse error"

\* The two callers of the fetch cycle: a FetchItem call, and the task loop
\* inside crawlTask.Execute.
Callers == {"FetchItem", "Execute"}
Idle == [pc |-> "idle", src |-> NoSource, items |-> Nil,
         subs |-> [arr |-> 0, len |-> 0], i |-> 0]

\* History of a fan-out: the targets that were in the slice when
\* notifySubscribers read it and that no Unsubscribe has named since, and
\* the targets offered the batch so far, in order.
NoFanout == [stable |-> {}, offered |-> <<>>]

\* A slice is a header [arr, len] over a backing array; the nil slice has
\* no array.
NilSlice == [arr |-> 0, len |-> 0]
cap(arrs, h) == IF h.arr = 0 THEN 0 ELSE Len(arrs[h.arr])
\* e.subscribers[name], the nil slice for a missing key.
SubscribersOf(name) ==
    IF name \in DOMAIN subscribers THEN subscribers[name] ELSE NilSlice
\* The elements a range over the slice reads now.
Elems(arrs, h) == [j \in 1..h.len |-> arrs[h.arr][j]]

\* append(h, ch): in place when the array has room, otherwise into a new
\* array of twice the capacity (1 for the nil slice).
append(arrs, h, ch) ==
    IF h.len < cap(arrs, h)
    THEN [slice  |-> [arr |-> h.arr, len |-> h.len + 1],
          arrays |-> [arrs EXCEPT ![h.arr][h.len + 1] = ch]]
    ELSE LET n == IF h.len = 0 THEN 1 ELSE 2 * h.len
             a == [j \in 1..n |-> IF j <= h.len THEN arrs[h.arr][j]
                                  ELSE IF j = h.len + 1 THEN ch ELSE NoTarget]
         IN  [slice  |-> [arr |-> Len(arrs) + 1, len |-> h.len + 1],
              arrays |-> Append(arrs, a)]

\* append(h[:i], h[i+1:]...): the elements after i move down one slot in
\* the same array; the last slot keeps its old content.
removeAt(arrs, h, i) ==
    [slice  |-> [arr |-> h.arr, len |-> h.len - 1],
     arrays |-> [arrs EXCEPT ![h.arr] =
                    [j \in 1..Len(@) |-> IF j >= i /\ j < h.len THEN @[j + 1] ELSE @[j]]]]

\* An Engine.Start or Engine.Stop call: where it is, and for Start the
\* sources its range over e.sources has still to visit.
NoCall == [pc |-> "idle", todo |-> {}]

\* NewEngine(cache): empty maps; no call in progress.
NewEngine ==
    /\ sources = EmptyMap
    /\ subscribers = EmptyMap
    /\ arrays = <<>>
    /\ queues = [t \in Targets |-> <<>>]
    /\ calls = [p \in Callers |-> Idle]
    /\ eret = [err |-> NoErr, items |-> Nil]
    /\ scheduled = {}
    /\ fanout = [p \in Callers |-> NoFanout]
    /\ erunning = FALSE
    /\ ecancelled = FALSE
    /\ ecalls = [c \in {"Start", "Stop", "Register"} |-> NoCall]

\* RegisterSource(source).  A crawlTask for the source is created by this
\* call when the engine is running, and by Start otherwise.
RegisterSource(source) ==
    /\ IF source.name \in DOMAIN sources
       THEN /\ eret' = [err |-> ErrSourceExists, items |-> Nil]
            /\ UNCHANGED <<sources, scheduled>>
       ELSE /\ sources' = Put(sources, source.name, source)
            /\ scheduled' = scheduled \cup {source}
            /\ eret' = [err |-> NoErr, items |-> Nil]
    /\ UNCHANGED <<subscribers, arrays, queues, calls, cacheVars>>

\* Faulty variant: UnregisterSource also drops the subscriber slice and
\* the Cache entry of the name.
UnregisterSource_Clears(name) ==
    /\ IF name \notin DOMAIN sources
       THEN /\ eret' = [err |-> ErrSourceNotFound, items |-> Nil]
            /\ UNCHANGED <<sources, subscribers, items>>
       ELSE /\ sources' = Del(sources, name)
            /\ subscribers' = Del(subscribers, name)
            /\ items' = Del(items, name)
            /\ eret' = [err |-> NoErr, items |-> Nil]
    /\ UNCHANGED <<arrays, queues, calls, scheduled, now, closed, gc, lastSet>>

\* UnregisterSource(name): the source leaves the map; an execution of its
\* task that is in flight goes on.
UnregisterSource(name) ==
    /\ IF name \notin DOMAIN sources
       THEN /\ eret' = [err |-> ErrSourceNotFound, items |-> Nil]
            /\ UNCHANGED sources
       ELSE /\ sources' = Del(sources, name)
            /\ eret' = [err |-> NoErr, items |-> Nil]
    /\ UNCHANGED <<subscribers, arrays, queues, calls, scheduled, cacheVars>>

\* Subscribe(name, ch)
Subscribe(name, ch) ==
    /\ IF name \notin DOMAIN sources
       THEN /\ eret' = [err |-> ErrSourceNotFound, items |-> Nil]
            /\ UNCHANGED <<subscribers, arrays>>
       ELSE /\ SubscribersOf(name).len < MaxSubs
            /\ LET r == append(arrays, SubscribersOf(name), ch)
               IN  /\ subscribers' = Put(subscribers, name, r.slice)
                   /\ arrays' = r.arrays
            /\ eret' = [err |-> NoErr, items |-> Nil]
    /\ UNCHANGED <<sources, queues, calls, scheduled, cacheVars>>

\* Faulty variant: Unsubscribe looks the source up as Subscribe does and
\* fails for a name that is not registered.
Unsubscribe_Lookup(name, ch) ==
    /\ IF name \notin DOMAIN sources
       THEN /\ eret' = [err |-> ErrSourceNotFound, items |-> Nil]
            /\ UNCHANGED <<subscribers, arrays>>
       ELSE /\ IF /\ name \in DOMAIN subscribers
                  /\ \E i \in 1..subscribers[name].len : arrays[subscribers[name].arr][i] = ch
               THEN LET h == subscribers[name]
                        i == CHOOSE j \in 1..h.len :
                                /\ arrays[h.arr][j] = ch
                                /\ \A k \in 1..(j - 1) : arrays[h.arr][k] # ch
                        r == removeAt(arrays, h, i)
                    IN  /\ subscribers' = Put(subscribers, name, r.slice)
                        /\ arrays' = r.arrays
               ELSE UNCHANGED <<subscribers, arrays>>
            /\ eret' = [err |-> NoErr, items |-> Nil]
    /\ UNCHANGED <<sources, queues, calls, scheduled, cacheVars>>

\* Unsubscribe(name, ch): the first occurrence of ch is removed.
Unsubscribe(name, ch) ==
    /\ IF /\ name \in DOMAIN subscribers
          /\ \E i \in 1..subscribers[name].len : arrays[subscribers[name].arr][i] = ch
       THEN LET h == subscribers[name]
                i == CHOOSE j \in 1..h.len :
                        /\ arrays[h.arr][j] = ch
                        /\ \A k \in 1..(j - 1) : arrays[h.arr][k] # ch
                r == removeAt(arrays, h, i)
            IN  /\ subscribers' = Put(subscribers, name, r.slice)
                /\ arrays' = r.arrays
       ELSE UNCHANGED <<subscribers, arrays>>
    /\ eret' = [err |-> NoErr, items |-> Nil]
    /\ UNCHANGED <<sources, queues, calls, scheduled, cacheVars>>

\* The owner of a channel receives the batch at its head.
Receive(ch) ==
    /\ queues[ch] # <<>>
    /\ queues' = [queues EXCEPT ![ch] = Tail(@)]
    /\ UNCHANGED <<sources, subscribers, arrays, calls, eret, scheduled, cacheVars>>

\* The fetch cycle of caller p returns: FetchItem returns (items, nil),
\* Execute returns nil.
Return(p, list) ==
    /\ calls' = [calls EXCEPT ![p] = Idle]
    /\ eret' = [err |-> NoErr, items |-> IF p = "FetchItem" THEN list ELSE Nil]

\* Faulty variant: FetchItem goes on to the cache without the lookup of
\* the source.
FetchItem_NoLookup(name) ==
    /\ calls["FetchItem"].pc = "idle"
    /\ calls' = [calls EXCEPT !["FetchItem"] =
                    [Idle EXCEPT !.pc = "get",
                                 !.src = IF name \in DOMAIN sources THEN sources[name]
                                         ELSE [name |-> name, interval |-> 1]]]
    /\ UNCHANGED <<sources, subscribers, arrays, queues, eret, scheduled, cacheVars>>

\* FetchItem(ctx, name) up to the lookup of the source under the read lock.
FetchItem(name) ==
    /\ calls["FetchItem"].pc = "idle"
    /\ IF name \notin DOMAIN sources
       THEN /\ eret' = [err |-> ErrSourceNotFound, items |-> Nil]
            /\ UNCHANGED calls
       ELSE /\ calls' = [calls EXCEPT !["FetchItem"] =
                            [Idle EXCEPT !.pc = "get", !.src = sources[name]]]
            /\ UNCHANGED eret
    /\ UNCHANGED <<sources, subscribers, arrays, queues, scheduled, cacheVars>>

\* Faulty variant: FetchItem ignores the cache and always fetches.
FetchItemGet_Always ==
    /\ calls["FetchItem"].pc = "get"
    /\ calls' = [calls EXCEPT !["FetchItem"].pc = "fetch"]
    /\ UNCHANGED eret
    /\ UNCHANGED <<sources, subscribers, arrays, queues, scheduled, cacheVars>>

\* Faulty variant: an entry that holds an empty list is a hit too.
FetchItemGet_HitsEmpty ==
    /\ calls["FetchItem"].pc = "get"
    /\ LET n == calls["FetchItem"].src.name
           r == Get(n)
       IN  IF r.err = NoErr
              /\ n \in DOMAIN items
              /\ ~(items[n].expiration > 0 /\ now > items[n].expiration)
           THEN Return("FetchItem", r.value)
           ELSE /\ calls' = [calls EXCEPT !["FetchItem"].pc = "fetch"]
                /\ UNCHANGED eret
    /\ UNCHANGED <<sources, subscribers, arrays, queues, scheduled, cacheVars>>

\* FetchItem: e.cache.Get(name); a non-empty hit is returned at once.
FetchItemGet ==
    /\ calls["FetchItem"].pc = "get"
    /\ LET r == Get(calls["FetchItem"].src.name)
       IN  IF r.err = NoErr /\ Len(r.value) > 0
           THEN Return("FetchItem", r.value)
           ELSE /\ calls' = [calls EXCEPT !["FetchItem"].pc = "fetch"]
                /\ UNCHANGED eret
    /\ UNCHANGED <<sources, subscribers, arrays, queues, scheduled, cacheVars>>

\* The task loop calls crawlTask.Execute: fetchAndProcess(source) starts.
fetchAndProcess(source) ==
    /\ calls["Execute"].pc = "idle"
    /\ source \in scheduled
    /\ calls' = [calls EXCEPT !["Execute"] = [Idle EXCEPT !.pc = "fetch", !.src = source]]
    /\ UNCHANGED <<sources, subscribers, arrays, queues, eret, scheduled, cacheVars>>

\* Faulty variant: a failed fetch or parse empties the source's cache entry.
SourceFails_Clears(p, err) ==
    /\ calls[p].pc = "fetch"
    /\ calls' = [calls EXCEPT ![p] = Idle]
    /\ eret' = [err |-> IF p = "FetchItem" THEN err ELSE NoErr, items |-> Nil]
    /\ Delete(calls[p].src.name)
    /\ UNCHANGED <<sources, subscribers, arrays, queues, scheduled, now, closed, gc>>

\* source.Fetch or source.Parse returns an error: FetchItem returns it,
\* fetchAndProcess prints it and returns, and Execute returns nil.
SourceFails(p, err) ==
    /\ calls[p].pc = "fetch"
    /\ calls' = [calls EXCEPT ![p] = Idle]
    /\ eret' = [err |-> IF p = "FetchItem" THEN err ELSE NoErr, items |-> Nil]
    /\ UNCHANGED <<sources, subscribers, arrays, queues, scheduled, cacheVars>>

\* source.Fetch and source.Parse succeed with the Item list `list`, and
\* e.cache.Set(name, items, interval * time.Second).
SourceYields(p, list) ==
    /\ calls[p].pc = "fetch"
    /\ Set(calls[p].src.name, list, calls[p].src.interval * Second)
    /\ calls' = [calls EXCEPT ![p].pc = "notify", ![p].items = list]
    /\ UNCHANGED <<sources, subscribers, arrays, queues, eret, scheduled, now, closed, gc>>

\* notifySubscribers reads e.subscribers[name] under the read lock; with
\* no slice, or nothing in it, the fetch cycle returns.
notifySubscribers(p) ==
    /\ calls[p].pc = "notify"
    /\ IF SubscribersOf(calls[p].src.name).len = 0
       THEN Return(p, calls[p].items)
       ELSE /\ calls' = [calls EXCEPT ![p].pc = "send",
                                      ![p].subs = subscribers[calls[p].src.name],
                                      ![p].i = 1]
            /\ UNCHANGED eret
    /\ UNCHANGED <<sources, subscribers, arrays, queues, scheduled, cacheVars>>

\* One round of the range loop: select { case ch <- items: default: };
\* after the last element the fetch cycle returns.
notifySend(p) ==
    /\ calls[p].pc = "send"
    /\ LET c == calls[p]
           ch == arrays[c.subs.arr][c.i]
       IN  /\ IF ch # NoTarget /\ Len(queues[ch]) < QueueCap
              THEN queues' = [queues EXCEPT ![ch] = Append(@, c.items)]
              ELSE UNCHANGED queues
           /\ IF c.i = c.subs.len
              THEN Return(p, c.items)
              ELSE /\ calls' = [calls EXCEPT ![p].i = @ + 1]
                   /\ UNCHANGED eret
    /\ UNCHANGED <<sources, subscribers, arrays, scheduled, cacheVars>>

\* ---------------------------------------------------------------- engine lifecycle
\* The engine's registry and lifecycle calls over its scheduler.
\* RegisterSource and UnregisterSource hold e.mu from entry to return and
\* call the scheduler inside: one step each.  Start and Stop release e.mu
\* after the running flag and go on without it: several steps.

\* The sources given to the engine here: two source objects of the name a,
\* with different intervals, and one of the name b.
LifeSources ==
    {src \in [name : TaskIds, interval : Intervals] : src.name = "a" \/ src.interval = 1}

\* &crawlTask{source, engine}: ID() is the source's name, Interval() its
\* interval.
crawlTask(source) == [id |-> source.name, interval |-> source.interval]

\* e.mu can be write-locked: no Start call holds the read lock.
emuFree == ecalls["Start"].pc # "add"

\* e.mu can be read-locked: no RegisterSource call waits in e.mu.Lock() (a
\* writer that waits keeps new readers out).
emuReadable == ecalls["Register"].pc # "lock"

\* No Engine.Start or Engine.Stop call is in progress, and no
\* RegisterSource call waits for e.mu.
NoCalls == \A c \in DOMAIN ecalls : ecalls[c].pc = "idle"

\* Faulty variant: RegisterSource stores the source before it looks for
\* the name.
EngineRegisterSource_Overwrite(source) ==
    /\ emuFree
    /\ IF source.name \in DOMAIN sources
       THEN /\ sources' = Put(sources, source.name, source)
            /\ eret' = [err |-> ErrSourceExists, items |-> Nil]
            /\ UNCHANGED schedVars
       ELSE /\ sources' = Put(sources, source.name, source)
            /\ IF erunning
               THEN /\ AddTask(crawlTask(source))
                    /\ eret' = [err |-> ret', items |-> Nil]
               ELSE /\ eret' = [err |-> NoErr, items |-> Nil]
                    /\ UNCHANGED schedVars
    /\ ecalls' = [ecalls EXCEPT !["Register"] = NoCall]
    /\ UNCHANGED <<subscribers, arrays, queues, calls, scheduled, fanout, cacheVars,
                   erunning, ecancelled>>

\* RegisterSource(source), with the scheduler: on a running engine the
\* result is the result of AddTask.  The call has e.mu from its first
\* statement to its return, whether or not it had to wait for it.
EngineRegisterSource(source) ==
    /\ emuFree
    /\ IF source.name \in DOMAIN sources
       THEN /\ eret' = [err |-> ErrSourceExists, items |-> Nil]
            /\ UNCHANGED <<sources, schedVars>>
       ELSE /\ sources' = Put(sources, source.name, source)
            /\ IF erunning
               THEN /\ AddTask(crawlTask(source))
                    /\ eret' = [err |-> ret', items |-> Nil]
               ELSE /\ eret' = [err |-> NoErr, items |-> Nil]
                    /\ UNCHANGED schedVars
    /\ ecalls' = [ecalls EXCEPT !["Register"] = NoCall]
    /\ UNCHANGED <<subscribers, arrays, queues, calls, scheduled, fanout, cacheVars,
                   erunning, ecancelled>>

\* A RegisterSource call finds e.mu read-locked by Start and waits in
\* e.mu.Lock().
EngineRegisterSourceLock ==
    /\ ecalls["Register"].pc = "idle"
    /\ ~emuFree
    /\ ecalls' = [ecalls EXCEPT !["Register"].pc = "lock"]
    /\ UNCHANGED <<sources, subscribers, arrays, queues, calls, eret, scheduled, fanout,
                   erunning, ecancelled, cacheVars, schedVars>>

\* UnregisterSource(name), with the scheduler: on a running engine the
\* result is the result of RemoveTask.
EngineUnregisterSource(name) ==
    /\ emuFree
    /\ IF name \notin DOMAIN sources
       THEN /\ eret' = [err |-> ErrSourceNotFound, items |-> Nil]
            /\ UNCHANGED <<sources, schedVars>>
       ELSE /\ sources' = Del(sources, name)
            /\ IF erunning
               THEN /\ RemoveTask(name)
                    /\ eret' = [err |-> ret', items |-> Nil]
               ELSE /\ eret' = [err |-> NoErr, items |-> Nil]
                    /\ UNCHANGED schedVars
    /\ UNCHANGED <<subscribers, arrays, queues, calls, scheduled, fanout, cacheVars, lifeVars>>

\* Faulty variant: Start on a running engine fails as the scheduler's
\* Start does.
EngineStart_Strict ==
    /\ ecalls["Start"].pc = "idle"
    /\ emuFree
    /\ IF erunning
       THEN /\ eret' = [err |-> ErrSchedulerRunning, items |-> Nil]
            /\ UNCHANGED <<erunning, ecalls>>
       ELSE /\ erunning' = TRUE
            /\ ecalls' = [ecalls EXCEPT !["Start"].pc = "rlock"]
            /\ UNCHANGED eret
    /\ UNCHANGED <<sources, subscribers, arrays, queues, calls, scheduled, fanout,
                   ecancelled, cacheVars, schedVars>>

\* Engine.Start under e.mu: return nil when running, set the flag otherwise.
EngineStart ==
    /\ ecalls["Start"].pc = "idle"
    /\ emuFree
    /\ IF erunning
       THEN /\ eret' = [err |-> NoErr, items |-> Nil]
            /\ UNCHANGED <<erunning, ecalls>>
       ELSE /\ erunning' = TRUE
            /\ ecalls' = [ecalls EXCEPT !["Start"].pc = "rlock"]
            /\ UNCHANGED eret
    /\ UNCHANGED <<sources, subscribers, arrays, queues, calls, scheduled, fanout,
                   ecancelled, cacheVars, schedVars>>

\* Engine.Start takes the read lock: the range will visit the sources
\* registered now.
EngineStartRLock ==
    /\ ecalls["Start"].pc = "rlock"
    /\ emuReadable
    /\ ecalls' = [ecalls EXCEPT !["Start"] = [pc |-> "add", todo |-> DOMAIN sources]]
    /\ UNCHANGED <<sources, subscribers, arrays, queues, calls, eret, scheduled, fanout,
                   erunning, ecancelled, cacheVars, schedVars>>

\* One round of the range over e.sources: AddTask of the source's
\* crawlTask; an error is printed and the range continues.
EngineStartAddTask(name) ==
    /\ ecalls["Start"].pc = "add"
    /\ name \in ecalls["Start"].todo
    /\ AddTask(crawlTask(sources[name]))
    /\ ecalls' = [ecalls EXCEPT !["Start"].todo = @ \ {name}]
    /\ UNCHANGED <<sources, subscribers, arrays, queues, calls, eret, scheduled, fanout,
                   erunning, ecancelled, cacheVars>>

\* The range is over: the read lock is released.
EngineStartRUnlock ==
    /\ ecalls["Start"].pc = "add"
    /\ ecalls["Start"].todo = {}
    /\ ecalls' = [ecalls EXCEPT !["Start"].pc = "start"]
    /\ UNCHANGED <<sources, subscribers, arrays, queues, calls, eret, scheduled, fanout,
                   erunning, ecancelled, cacheVars, schedVars>>

\* return e.scheduler.Start(ctx)
EngineStartScheduler ==
    /\ ecalls["Start"].pc = "start"
    /\ Start
    /\ ecalls' = [ecalls EXCEPT !["Start"] = NoCall]
    /\ eret' = [err |-> ret', items |-> Nil]
    /\ UNCHANGED <<sources, subscribers, arrays, queues, calls, scheduled, fanout,
                   erunning, ecancelled, cacheVars>>

\* Engine.Stop under e.mu: return nil when stopped, clear the flag otherwise.
EngineStop ==
    /\ ecalls["Stop"].pc = "idle"
    /\ emuFree
    /\ IF ~erunning
       THEN /\ eret' = [err |-> NoErr, items |-> Nil]
            /\ UNCHANGED <<erunning, ecalls>>
       ELSE /\ erunning' = FALSE
            /\ ecalls' = [ecalls EXCEPT !["Stop"].pc = "stop"]
            /\ UNCHANGED eret
    /\ UNCHANGED <<sources, subscribers, arrays, queues, calls, scheduled, fanout,
                   ecancelled, cacheVars, schedVars>>

\* e.scheduler.Stop() up to wg.Wait(); its error is returned at once.
EngineStopScheduler ==
    /\ ecalls["Stop"].pc = "stop"
    /\ StopBegin
    /\ IF running
       THEN /\ ecalls' = [ecalls EXCEPT !["Stop"].pc = "wait"]
            /\ UNCHANGED eret
       ELSE /\ ecalls' = [ecalls EXCEPT !["Stop"] = NoCall]
            /\ eret' = [err |-> ret', items |-> Nil]
    /\ UNCHANGED <<sources, subscribers, arrays, queues, calls, scheduled, fanout,
                   erunning, ecancelled, cacheVars>>

\* e.scheduler.Stop() returns nil; e.cancel(); return nil.
EngineStopReturn ==
    /\ ecalls["Stop"].pc = "wait"
    /\ StopReturn
    /\ ecancelled' = TRUE
    /\ ecalls' = [ecalls EXCEPT !["Stop"] = NoCall]
    /\ eret' = [err |-> NoErr, items |-> Nil]
    /\ UNCHANGED <<sources, subscribers, arrays, queues, calls, scheduled, fanout,
                   erunning, cacheVars>>

\* crawlTask.Execute of a source whose fetch and parse succeed:
\* fetchAndProcess ends with notifySubscribers, which takes e.mu.RLock();
\* the execution returns nil.
crawlTaskExecute(l) ==
    /\ emuReadable
    /\ ExecReturn(l, FALSE)

\* ---------------------------------------------------------------- worker pool
\* The worker pool of coroutine (CoroutinePool): one Execute call with its
\* worker goroutines, the goroutine that closes the work channel, and the
\* context of the call.  Indexes count from 0 as in the program.

\* What a work function returns: a value and no error, or an error.
WorkFuncs == {[value |-> 1, err |-> NoErr], [value |-> 0, err |-> "work error"]}
\* The zero Result.
ZeroResult == [Value |-> 0, Err |-> NoErr, Index |-> 0]

\* NewCoroutinePool(maxWorkers): no results; no Execute call yet.
NewCoroutinePool ==
    /\ works = <<>>
    /\ results = <<>>
    /\ workChan = [buf |-> <<>>, closed |-> FALSE]
    /\ doneChan = FALSE
    /\ ctxDone = FALSE
    /\ pwg = 0
    /\ main = [pc |-> "idle", i |-> 0]
    /\ workers = <<>>
    /\ watcher = "none"
    /\ ran = <<>>

\* Faulty variant: one worker for each work function.
workerCount_PerWork(n) == n

\* workerCount: p.maxWorkers, or len(works) when that is smaller.
workerCount(n) == IF MaxWorkers > n THEN n ELSE MaxWorkers

\* Execute(ctx, works) up to the loop that sends the indexes: with no work
\* it returns at once; otherwise the results are reset, the channel is
\* made, and the workers and the watcher are started.
Execute(ws) ==
    /\ main.pc = "idle"
    /\ works' = ws
    /\ IF DOMAIN ws = {}
       THEN /\ main' = [pc |-> "returned", i |-> 0]
            /\ UNCHANGED <<results, workChan, pwg, workers, watcher, ran>>
       ELSE /\ results' = [j \in DOMAIN ws |-> ZeroResult]
            /\ workChan' = [buf |-> <<>>, closed |-> FALSE]
            /\ pwg' = workerCount(Cardinality(DOMAIN ws))
            /\ workers' = [w \in 1..workerCount(Cardinality(DOMAIN ws)) |->
                              [pc |-> "select", index |-> 0]]
            /\ watcher' = "select"
            /\ ran' = [j \in DOMAIN ws |-> 0]
            /\ main' = [pc |-> "send", i |-> 0]
    /\ UNCHANGED <<doneChan, ctxDone>>

\* The sending loop, case workChan <- i.  The channel holds len(works)
\* indexes, so it has room; a send on a closed channel panics.
MainSend ==
    /\ main.pc = "send"
    /\ main.i \in DOMAIN works
    /\ IF workChan.closed
       THEN /\ main' = [main EXCEPT !.pc = "panic"]
            /\ UNCHANGED workChan
       ELSE /\ workChan' = [workChan EXCEPT !.buf = Append(@, main.i)]
            /\ main' = [main EXCEPT !.i = @ + 1]
    /\ UNCHANGED <<works, results, doneChan, ctxDone, pwg, workers, watcher, ran>>

\* The sending loop, case <-ctx.Done(): the break leaves the select, and
\* the loop goes on with the next index.
MainSkip ==
    /\ main.pc = "send"
    /\ main.i \in DOMAIN works
    /\ ctxDone
    /\ main' = [main EXCEPT !.i = @ + 1]
    /\ UNCHANGED <<works, results, workChan, doneChan, ctxDone, pwg, workers, watcher, ran>>

\* close(doneChan) after the loop; Execute goes to wg.Wait().
MainCloseDone ==
    /\ main.pc = "send"
    /\ main.i \notin DOMAIN works
    /\ doneChan' = TRUE
    /\ main' = [main EXCEPT !.pc = "wait"]
    /\ UNCHANGED <<works, results, workChan, ctxDone, pwg, workers, watcher, ran>>

\* wg.Wait() returns and Execute returns p.results.
MainReturn ==
    /\ main.pc = "wait"
    /\ pwg = 0
    /\ main' = [main EXCEPT !.pc = "returned"]
    /\ UNCHANGED <<works, results, workChan, doneChan, ctxDone, pwg, workers, watcher, ran>>

\* The watcher: close(workChan) when the context is cancelled or doneChan
\* is closed.
WatcherClose ==
    /\ watcher = "select"
    /\ ctxDone \/ doneChan
    /\ workChan' = [workChan EXCEPT !.closed = TRUE]
    /\ watcher' = "done"
    /\ UNCHANGED <<works, results, doneChan, ctxDone, pwg, main, workers, ran>>

\* A worker, case index, ok := <-workChan with ok: it calls works[index].
WorkerReceive(w) ==
    /\ workers[w].pc = "select"
    /\ workChan.buf # <<>>
    /\ workers' = [workers EXCEPT ![w] = [pc |-> "run", index |-> Head(workChan.buf)]]
    /\ workChan' = [workChan EXCEPT !.buf = Tail(@)]
    /\ ran' = [ran EXCEPT ![Head(workChan.buf)] = @ + 1]
    /\ UNCHANGED <<works, results, doneChan, ctxDone, pwg, main, watcher>>

\* The work function returns and the worker stores its Result under the
\* mutex.
WorkerStore(w) ==
    /\ workers[w].pc = "run"
    /\ results' = [results EXCEPT ![workers[w].index] =
                      [Value |-> works[workers[w].index].value,
                       Err   |-> works[workers[w].index].err,
                       Index |-> workers[w].index]]
    /\ workers' = [workers EXCEPT ![w] = [pc |-> "select", index |-> 0]]
    /\ UNCHANGED <<works, workChan, doneChan, ctxDone, pwg, main, watcher, ran>>

\* A worker returns: the channel is closed and empty, or the context is
\* cancelled; the deferred wg.Done() runs.
WorkerReturn(w) ==
    /\ workers[w].pc = "select"
    /\ (workChan.closed /\ workChan.buf = <<>>) \/ ctxDone
    /\ workers' = [workers EXCEPT ![w].pc = "done"]
    /\ pwg' = pwg - 1
    /\ UNCHANGED <<works, results, workChan, doneChan, ctxDone, main, watcher, ran>>

\* The owner of the context cancels it.
CtxCancel ==
    /\ ~ctxDone
    /\ ctxDone' = TRUE
    /\ UNCHANGED <<works, results, workChan, doneChan, pwg, main, workers, watcher, ran>>

\* ---------------------------------------------------------------- Init
\* NewEngine(NewMemoryCache(..)), which calls NewInMemoryScheduler().
Init ==
    /\ NewInMemoryScheduler
    /\ NewMemoryCache
    /\ NewEngine
    /\ NewCoroutinePool

\* ---------------------------------------------------------------- Next
Next ==
    \/ \E t \in Task : AddTask(t) /\ UNCHANGED <<cacheVars, engineVars, lifeVars, poolVars>>
    \/ \E id \in TaskIds : RemoveTask(id) /\ UNCHANGED <<cacheVars, engineVars, lifeVars, poolVars>>
    \/ Start /\ UNCHANGED <<cacheVars, engineVars, lifeVars, poolVars>>
    \/ StopBegin /\ UNCHANGED <<cacheVars, engineVars, lifeVars, poolVars>>
    \/ StopReturn /\ UNCHANGED <<cacheVars, engineVars, lifeVars, poolVars>>
    \/ \E l \in LoopIds : LoopFirst(l) /\ UNCHANGED <<cacheVars, engineVars, lifeVars, poolVars>>
    \/ \E l \in LoopIds : \E failed \in BOOLEAN : ExecReturn(l, failed) /\ UNCHANGED <<cacheVars, engineVars, lifeVars, poolVars>>
    \/ \E l \in LoopIds : SelectTick(l) /\ UNCHANGED <<cacheVars, engineVars, lifeVars, poolVars>>
    \/ \E l \in LoopIds : SelectDone(l) /\ UNCHANGED <<cacheVars, engineVars, lifeVars, poolVars>>
    \/ \E l \in LoopIds : LoopCleanup(l) /\ UNCHANGED <<cacheVars, engineVars, lifeVars, poolVars>>

Spec == Init /\ [][Next]_vars

\* The cache on its own: callers' Set, Delete, Clear and Close, the sweeps
\* of the gc goroutine, and the clock.
CacheNext ==
    \/ \E k \in TaskIds : \E v \in ItemLists : \E d \in Durations :
          Set(k, v, d) /\ UNCHANGED <<now, closed, gc, schedVars, engineVars, lifeVars, poolVars>>
    \/ \E k \in TaskIds : Delete(k) /\ UNCHANGED <<now, closed, gc, schedVars, engineVars, lifeVars, poolVars>>
    \/ Clear /\ UNCHANGED <<now, closed, gc, schedVars, engineVars, lifeVars, poolVars>>
    \/ Close /\ UNCHANGED <<schedVars, engineVars, lifeVars, poolVars>>
    \/ gcTick /\ UNCHANGED <<schedVars, engineVars, lifeVars, poolVars>>
    \/ deleteExpired /\ UNCHANGED <<schedVars, engineVars, lifeVars, poolVars>>
    \/ gcStop /\ UNCHANGED <<schedVars, engineVars, lifeVars, poolVars>>
    \/ Tick /\ UNCHANGED <<schedVars, engineVars, lifeVars, poolVars>>

CacheSpec == Init /\ [][CacheNext]_vars

\* How many slots of the slice of `name` hold target t.
Count(arrs, h, t) == Cardinality({j \in 1..h.len : arrs[h.arr][j] = t})

\* The fan-out history over one step of the engine: it starts when
\* notifySubscribers has read the slice, records each offer, forgets a
\* target an Unsubscribe removes, and ends with the fetch cycle.
History ==
    fanout' = [p \in Callers |->
        IF calls[p].pc = "notify" /\ calls'[p].pc = "send"
        THEN [stable |-> {arrays[calls'[p].subs.arr][j] : j \in 1..calls'[p].subs.len},
              offered |-> <<>>]
        ELSE IF calls'[p].pc # "send" THEN NoFanout
        ELSE IF calls'[p].i # calls[p].i
        THEN [fanout[p] EXCEPT !.offered = Append(@, arrays[calls[p].subs.arr][calls[p].i])]
        ELSE LET n == calls[p].src.name
             IN  [fanout[p] EXCEPT !.stable =
                     {t \in @ : Count(arrays', SubscribersOf(n)', t)
                                    >= Count(arrays, SubscribersOf(n), t)}]]

\* At most one fetch cycle is in progress.
NoCycle == \A p \in Callers : calls[p].pc = "idle"

\* The engine's fetch path with one subscriber channel: registry and
\* subscription calls, FetchItem calls and scheduled executions one at a
\* time, the subscriber's receives, and the clock.
EngineNext ==
    \/ \E src \in Source : RegisterSource(src) /\ History /\ UNCHANGED <<schedVars, lifeVars, poolVars>>
    \/ \E n \in SourceNames : UnregisterSource(n) /\ History /\ UNCHANGED <<schedVars, lifeVars, poolVars>>
    \/ \E n \in SourceNames : Subscribe(n, "t1") /\ History /\ UNCHANGED <<schedVars, lifeVars, poolVars>>
    \/ \E n \in SourceNames : Unsubscribe(n, "t1") /\ History /\ UNCHANGED <<schedVars, lifeVars, poolVars>>
    \/ Receive("t1") /\ History /\ UNCHANGED <<schedVars, lifeVars, poolVars>>
    \/ \E n \in SourceNames : NoCycle /\ FetchItem(n) /\ History /\ UNCHANGED <<schedVars, lifeVars, poolVars>>
    \/ FetchItemGet /\ History /\ UNCHANGED <<schedVars, lifeVars, poolVars>>
    \/ \E src \in Source : NoCycle /\ fetchAndProcess(src) /\ History /\ UNCHANGED <<schedVars, lifeVars, poolVars>>
    \/ \E p \in Callers : \E err \in {ErrFetch, ErrParse} :
          SourceFails(p, err) /\ History /\ UNCHANGED <<schedVars, lifeVars, poolVars>>
    \/ \E p \in Callers : \E list \in ItemLists :
          SourceYields(p, list) /\ History /\ UNCHANGED <<schedVars, lifeVars, poolVars>>
    \/ \E p \in Callers : notifySubscribers(p) /\ History /\ UNCHANGED <<schedVars, lifeVars, poolVars>>
    \/ \E p \in Callers : notifySend(p) /\ History /\ UNCHANGED <<schedVars, lifeVars, poolVars>>
    \/ Tick /\ UNCHANGED <<schedVars, engineVars, lifeVars, poolVars>>

EngineSpec == Init /\ [][EngineNext]_vars

\* The fan-out with two subscriber channels and a source that yields one
\* batch: subscription calls while a fetch cycle is in progress; the clock
\* stands still.
FanoutNext ==
    \/ \E src \in Source : RegisterSource(src) /\ History /\ UNCHANGED <<schedVars, lifeVars, poolVars>>
    \/ \E n \in SourceNames : UnregisterSource(n) /\ History /\ UNCHANGED <<schedVars, lifeVars, poolVars>>
    \/ \E n \in SourceNames : \E ch \in Targets : Subscribe(n, ch) /\ History /\ UNCHANGED <<schedVars, lifeVars, poolVars>>
    \/ \E n \in SourceNames : \E ch \in Targets : Unsubscribe(n, ch) /\ History /\ UNCHANGED <<schedVars, lifeVars, poolVars>>
    \/ \E ch \in Targets : Receive(ch) /\ History /\ UNCHANGED <<schedVars, lifeVars, poolVars>>
    \/ \E n \in SourceNames : NoCycle /\ FetchItem(n) /\ History /\ UNCHANGED <<schedVars, lifeVars, poolVars>>
    \/ FetchItemGet /\ History /\ UNCHANGED <<schedVars, lifeVars, poolVars>>
    \/ \E src \in Source : NoCycle /\ fetchAndProcess(src) /\ History /\ UNCHANGED <<schedVars, lifeVars, poolVars>>
    \/ \E p \in Callers : \E err \in {ErrFetch, ErrParse} :
          SourceFails(p, err) /\ History /\ UNCHANGED <<schedVars, lifeVars, poolVars>>
    \/ \E p \in Callers : SourceYields(p, <<"x">>) /\ History /\ UNCHANGED <<schedVars, lifeVars, poolVars>>
    \/ \E p \in Callers : notifySubscribers(p) /\ History /\ UNCHANGED <<schedVars, lifeVars, poolVars>>
    \/ \E p \in Callers : notifySend(p) /\ History /\ UNCHANGED <<schedVars, lifeVars, poolVars>>

FanoutSpec == Init /\ [][FanoutNext]_vars

\* The engine's calls one after the other (a call starts when no Start or
\* Stop call is in progress), its task loops running all the while.  The
\* executions of a crawlTask return nil.  One channel subscribes to source
\* a, once.
LifecycleNext ==
    \/ \E src \in LifeSources : NoCalls /\ EngineRegisterSource(src) /\ UNCHANGED poolVars
    \/ \E n \in TaskIds : NoCalls /\ EngineUnregisterSource(n) /\ UNCHANGED poolVars
    \/ NoCalls /\ SubscribersOf("a").len = 0 /\ Subscribe("a", "t1")
          /\ UNCHANGED <<fanout, schedVars, lifeVars, poolVars>>
    \/ NoCalls /\ EngineStart /\ UNCHANGED poolVars
    \/ EngineStartRLock /\ UNCHANGED poolVars
    \/ \E n \in TaskIds : EngineStartAddTask(n) /\ UNCHANGED poolVars
    \/ EngineStartRUnlock /\ UNCHANGED poolVars
    \/ EngineStartScheduler /\ UNCHANGED poolVars
    \/ NoCalls /\ EngineStop /\ UNCHANGED poolVars
    \/ EngineStopScheduler /\ UNCHANGED poolVars
    \/ EngineStopReturn /\ UNCHANGED poolVars
    \/ \E l \in LoopIds : LoopFirst(l) /\ UNCHANGED <<cacheVars, engineVars, lifeVars, poolVars>>
    \/ \E l \in LoopIds : ExecReturn(l, FALSE) /\ UNCHANGED <<cacheVars, engineVars, lifeVars, poolVars>>
    \/ \E l \in LoopIds : SelectTick(l) /\ UNCHANGED <<cacheVars, engineVars, lifeVars, poolVars>>
    \/ \E l \in LoopIds : SelectDone(l) /\ UNCHANGED <<cacheVars, engineVars, lifeVars, poolVars>>
    \/ \E l \in LoopIds : LoopCleanup(l) /\ UNCHANGED <<cacheVars, engineVars, lifeVars, poolVars>>

LifecycleSpec == Init /\ [][LifecycleNext]_vars

\* One Execute call of the pool on a works slice of any length up to
\* MaxWorks, with a context that can be cancelled at any time.
PoolNext ==
    \/ \E n \in 0..MaxWorks : \E ws \in [0..(n - 1) -> WorkFuncs] :
          Execute(ws) /\ UNCHANGED <<schedVars, cacheVars, engineVars, lifeVars>>
    \/ MainSend /\ UNCHANGED <<schedVars, cacheVars, engineVars, lifeVars>>
    \/ MainSkip /\ UNCHANGED <<schedVars, cacheVars, engineVars, lifeVars>>
    \/ MainCloseDone /\ UNCHANGED <<schedVars, cacheVars, engineVars, lifeVars>>
    \/ MainReturn /\ UNCHANGED <<schedVars, cacheVars, engineVars, lifeVars>>
    \/ WatcherClose /\ UNCHANGED <<schedVars, cacheVars, engineVars, lifeVars>>
    \/ \E w \in DOMAIN workers : WorkerReceive(w) /\ UNCHANGED <<schedVars, cacheVars, engineVars, lifeVars>>
    \/ \E w \in DOMAIN workers : WorkerStore(w) /\ UNCHANGED <<schedVars, cacheVars, engineVars, lifeVars>>
    \/ \E w \in DOMAIN workers : WorkerReturn(w) /\ UNCHANGED <<schedVars, cacheVars, engineVars, lifeVars>>
    \/ CtxCancel /\ UNCHANGED <<schedVars, cacheVars, engineVars, lifeVars>>

PoolSpec == Init /\ [][PoolNext]_vars

\* A FetchItem call and a scheduled execution of the same source at the
\* same time: the source is registered, one channel subscribes (more than
\* once, if it likes) and receives, the FetchItem call's parse yields x and
\* the scheduled execution's y, and the clock advances.
OverlapNext ==
    \/ \E src \in Source : RegisterSource(src) /\ History /\ UNCHANGED <<schedVars, lifeVars, poolVars>>
    \/ \E n \in SourceNames : Subscribe(n, "t1") /\ History /\ UNCHANGED <<schedVars, lifeVars, poolVars>>
    \/ Receive("t1") /\ History /\ UNCHANGED <<schedVars, lifeVars, poolVars>>
    \/ \E n \in SourceNames : FetchItem(n) /\ History /\ UNCHANGED <<schedVars, lifeVars, poolVars>>
    \/ FetchItemGet /\ History /\ UNCHANGED <<schedVars, lifeVars, poolVars>>
    \/ \E src \in Source : fetchAndProcess(src) /\ History /\ UNCHANGED <<schedVars, lifeVars, poolVars>>
    \/ \E p \in Callers : \E err \in {ErrFetch, ErrParse} :
          SourceFails(p, err) /\ History /\ UNCHANGED <<schedVars, lifeVars, poolVars>>
    \/ SourceYields("FetchItem", <<"x">>) /\ History /\ UNCHANGED <<schedVars, lifeVars, poolVars>>
    \/ SourceYields("Execute", <<"y">>) /\ History /\ UNCHANGED <<schedVars, lifeVars, poolVars>>
    \/ \E p \in Callers : notifySubscribers(p) /\ History /\ UNCHANGED <<schedVars, lifeVars, poolVars>>
    \/ \E p \in Callers : notifySend(p) /\ History /\ UNCHANGED <<schedVars, lifeVars, poolVars>>
    \/ Tick /\ UNCHANGED <<schedVars, engineVars, lifeVars, poolVars>>

OverlapSpec == Init /\ [][OverlapNext]_vars

\* The source of the concurrent engine calls.
LifeSource == [name |-> "a", interval |-> 1]

\* The steps of the Engine.Start call, of the Engine.Stop call, of the
\* RegisterSource call and of task loop l.
StartCall ==
    \/ EngineStart
    \/ EngineStartRLock
    \/ \E n \in TaskIds : EngineStartAddTask(n)
    \/ EngineStartRUnlock
    \/ EngineStartScheduler
StopCall ==
    \/ EngineStop
    \/ EngineStopScheduler
    \/ EngineStopReturn
RegisterCall ==
    \/ EngineRegisterSourceLock
    \/ EngineRegisterSource(LifeSource)
TaskLoop(l) ==
    \/ LoopFirst(l) /\ UNCHANGED <<cacheVars, engineVars, lifeVars>>
    \/ crawlTaskExecute(l) /\ UNCHANGED <<cacheVars, engineVars, lifeVars>>
    \/ SelectDone(l) /\ UNCHANGED <<cacheVars, engineVars, lifeVars>>
    \/ LoopCleanup(l) /\ UNCHANGED <<cacheVars, engineVars, lifeVars>>

\* The engine with its scheduler under concurrent calls: one Start call,
\* one Stop call and one RegisterSource call may be in progress at the
\* same time as the task loops.
ConcurrentNext ==
    \/ EngineRegisterSourceLock /\ UNCHANGED poolVars
    \/ EngineRegisterSource(LifeSource) /\ UNCHANGED poolVars
    \/ EngineStart /\ UNCHANGED poolVars
    \/ EngineStartRLock /\ UNCHANGED poolVars
    \/ \E n \in TaskIds : EngineStartAddTask(n) /\ UNCHANGED poolVars
    \/ EngineStartRUnlock /\ UNCHANGED poolVars
    \/ EngineStartScheduler /\ UNCHANGED poolVars
    \/ EngineStop /\ UNCHANGED poolVars
    \/ EngineStopScheduler /\ UNCHANGED poolVars
    \/ EngineStopReturn /\ UNCHANGED poolVars
    \/ \E l \in LoopIds : LoopFirst(l) /\ UNCHANGED <<cacheVars, engineVars, lifeVars, poolVars>>
    \/ \E l \in LoopIds : crawlTaskExecute(l) /\ UNCHANGED <<cacheVars, engineVars, lifeVars, poolVars>>
    \/ \E l \in LoopIds : SelectTick(l) /\ UNCHANGED <<cacheVars, engineVars, lifeVars, poolVars>>
    \/ \E l \in LoopIds : SelectDone(l) /\ UNCHANGED <<cacheVars, engineVars, lifeVars, poolVars>>
    \/ \E l \in LoopIds : LoopCleanup(l) /\ UNCHANGED <<cacheVars, engineVars, lifeVars, poolVars>>

ConcurrentSpec == Init /\ [][ConcurrentNext]_vars

\* The Go scheduler runs every goroutine that can take a step: each call
\* in progress and each task loop goes on when it is not blocked.
ConcurrentFairSpec ==
    /\ ConcurrentSpec
    /\ WF_vars(StartCall /\ UNCHANGED poolVars)
    /\ WF_vars(StopCall /\ UNCHANGED poolVars)
    /\ WF_vars(RegisterCall /\ UNCHANGED poolVars)
    /\ \A l \in 1..MaxLoops : WF_vars(l \in LoopIds /\ TaskLoop(l) /\ UNCHANGED poolVars)

TypeOK ==
    /\ DOMAIN tasks \subseteq TaskIds
    /\ \A i \in DOMAIN tasks : tasks[i] \in Task /\ tasks[i].id = i
    /\ DOMAIN taskCtxs \subseteq TaskIds
    /\ \A i \in DOMAIN taskCtxs : taskCtxs[i] \in LoopIds
    /\ running \in BOOLEAN
    /\ wg \in 0..MaxLoops
    /\ mu \in {"free", "Stop"}
    /\ Len(loops) <= MaxLoops

\* ================================================================ claims

\* The scheduler is Stopped and no Stop call is in progress: the time from
\* construction to the first Start, and from the return of a successful
\* Stop to the next Start.
Stopped == ~running /\ mu = "free"

\* C1: whenever Stop has returned successfully (and until a later Start),
\* no goroutine of a task loop is left that has not called wg.Done(): no
\* task execution is in progress and none can begin, whatever AddTask,
\* RemoveTask, Start and Stop calls came before, tasks removed in flight
\* included.
C1_NoExecutionAfterStop ==
    Stopped => \A l \in LoopIds : ~Alive(loops[l])

\* C1 witness: Stop has returned on a scheduler that had started two loops,
\* one of them for a task that RemoveTask has deregistered since.
C1_Witness ==
    /\ Stopped
    /\ Len(loops) = 2
    /\ \E l \in LoopIds : loops[l].id \notin DOMAIN tasks
    /\ \E l \in LoopIds : loops[l].id \in DOMAIN tasks

\* C2 (the claim as stated): while a Stop call waits in wg.Wait(), every
\* task loop that is still alive has had its cancellation signal raised.
C2_StopCancelsEveryLiveLoop ==
    mu = "Stop" => \A l \in LoopIds : Alive(loops[l]) => loops[l].cancelled

\* C3 (the claim as stated): no two executions of tasks with the same
\* identifier are in progress at once.
C3_NoOverlapPerId ==
    \A l1, l2 \in LoopIds :
        (l1 # l2 /\ loops[l1].id = loops[l2].id)
            => ~(Executing(loops[l1]) /\ Executing(loops[l2]))

\* C4: the scheduler starts Stopped; Start succeeds exactly when it is
\* Stopped and fails with ErrSchedulerRunning otherwise; Stop succeeds
\* exactly when it is Running and fails with ErrSchedulerStopped otherwise;
\* a failing Start or Stop changes nothing but the returned error; the
\* running flag changes only by a successful Start or Stop.
C4_StartStopStep ==
    /\ Start =>
          IF running
          THEN ret' = ErrSchedulerRunning
               /\ UNCHANGED <<running, tasks, taskCtxs, loops, wg, mu>>
          ELSE ret' = NoErr /\ running' /\ UNCHANGED tasks
    /\ StopBegin =>
          IF ~running
          THEN ret' = ErrSchedulerStopped
               /\ UNCHANGED <<running, tasks, taskCtxs, loops, wg, mu>>
          ELSE ~running' /\ mu' = "Stop" /\ UNCHANGED tasks
    /\ (mu = "Stop" /\ mu' = "free") => (ret' = NoErr /\ ~running' /\ UNCHANGED tasks)
    /\ (running' # running) => (Start \/ StopBegin)
C4_StartStop == ~running /\ [][C4_StartStopStep]_vars

\* C4 witness: after a Start and a Stop that both succeeded, a second Stop
\* has failed with ErrSchedulerStopped.
C4_Witness ==
    /\ ret = ErrSchedulerStopped
    /\ ~running
    /\ Len(loops) > 0

\* C5: AddTask of a registered identifier fails with ErrTaskExists and
\* leaves the registered task, the loops, the cancel map and every other
\* task unchanged; AddTask of an unregistered identifier succeeds and
\* registers exactly that task under its identifier.
C5_AddTaskStep ==
    \A t \in Task :
        AddTask(t) =>
            IF t.id \in DOMAIN tasks
            THEN ret' = ErrTaskExists
                 /\ UNCHANGED <<tasks, taskCtxs, loops, wg, running, mu>>
            ELSE ret' = NoErr
                 /\ DOMAIN tasks' = DOMAIN tasks \cup {t.id}
                 /\ tasks'[t.id] = t
                 /\ \A i \in DOMAIN tasks : tasks'[i] = tasks[i]
C5_AddTask == [][C5_AddTaskStep]_vars

\* C5 witness: on a Running scheduler with a live loop for "a", AddTask of
\* another task object with identifier "a" has failed, and the registered
\* task is still the one the loop runs.
C5_Witness ==
    /\ ret = ErrTaskExists
    /\ running
    /\ "a" \in DOMAIN tasks
    /\ \E l \in LoopIds : Alive(loops[l]) /\ loops[l].id = "a"

\* C6: RemoveTask of an unregistered identifier fails with ErrTaskNotFound
\* and changes nothing; a successful RemoveTask(id) removes exactly id:
\* ListTasks has one element fewer and still lists every other task.
C6_RemoveTaskStep ==
    \A id \in TaskIds :
        RemoveTask(id) =>
            IF id \notin DOMAIN tasks
            THEN ret' = ErrTaskNotFound
                 /\ UNCHANGED <<tasks, taskCtxs, loops, wg, running, mu>>
            ELSE ret' = NoErr
                 /\ ListTasks' = ListTasks \ {tasks[id]}
                 /\ Cardinality(ListTasks') = Cardinality(ListTasks) - 1
                 /\ GetTask(id)'.err = ErrTaskNotFound
C6_RemoveTask == [][C6_RemoveTaskStep]_vars

\* C6 witness: a RemoveTask has failed with ErrTaskNotFound on a Running
\* scheduler whose other task is still listed, after an earlier RemoveTask
\* cancelled a loop.
C6_Witness ==
    /\ ret = ErrTaskNotFound
    /\ running
    /\ Cardinality(ListTasks) = 1
    /\ \E l \in LoopIds : loops[l].cancelled /\ loops[l].id \notin DOMAIN tasks

\* C7 (the claim as stated): after RemoveTask(id) succeeds on a Running
\* scheduler, every live loop for id has its cancellation signal raised.
C7_RemoveTaskCancelsStep ==
    \A id \in TaskIds :
        (RemoveTask(id) /\ id \in DOMAIN tasks /\ running) =>
            \A l \in LoopIds :
                (Alive(loops'[l]) /\ loops'[l].id = id) => loops'[l].cancelled
C7_RemoveTaskCancels == [][C7_RemoveTaskCancelsStep]_vars

\* C8: AddTask that succeeds while Running starts the task's loop in the
\* call (one new goroutine for that task, its cancel function stored, the
\* wait group raised), and the first step of that goroutine is the
\* execution, with no tick received; AddTask that succeeds while Stopped
\* starts no loop, and while Stopped no loop is alive to execute anything.
C8_AddTaskStartsLoopStep ==
    /\ \A t \in Task :
          (AddTask(t) /\ t.id \notin DOMAIN tasks) =>
              IF running
              THEN /\ loops' = Append(loops, NewLoop(t))
                   /\ taskCtxs' = Put(taskCtxs, t.id, Len(loops'))
                   /\ wg' = wg + 1
              ELSE UNCHANGED <<loops, taskCtxs, wg>>
    /\ \A l \in LoopIds :
          (loops[l].pc = "first" /\ loops'[l].pc # "first") =>
              (loops'[l].pc = "exec" /\ loops'[l].execs = 1 /\ loops'[l].ticks = 0)
C8_AddTaskStartsLoop ==
    /\ [](Stopped => \A l \in LoopIds : loops[l].pc \notin {"first", "exec"})
    /\ [][C8_AddTaskStartsLoopStep]_vars

\* C8 witness: the loop of "a" was started after the loop of "b" and both
\* are alive on a Running scheduler (Start starts "a" before "b", so the
\* loop of "a" comes from AddTask), and it is in its first execution.
C8_Witness ==
    /\ running
    /\ Len(loops) = 2
    /\ loops[1].id = "b" /\ Alive(loops[1])
    /\ loops[2].id = "a" /\ loops[2].pc = "exec" /\ loops[2].ticks = 0

\* C9: a successful Start leaves exactly one live loop for each registered
\* task and none for any other; a live loop has executed once before any
\* tick and once more for each tick it received; and a loop is cancelled
\* only by Stop or by RemoveTask of its identifier, and returns only when
\* cancelled.
C9_LoopCounts ==
    \A l \in LoopIds :
        /\ loops[l].pc = "first" => (loops[l].execs = 0 /\ loops[l].ticks = 0)
        /\ loops[l].pc \in {"exec", "select"} => loops[l].execs = loops[l].ticks + 1
C9_StartStep ==
    /\ (Start /\ ~running) =>
          /\ \A id \in DOMAIN tasks :
                Cardinality({l \in 1..Len(loops') :
                                Alive(loops'[l]) /\ loops'[l].id = id}) = 1
          /\ \A l \in 1..Len(loops') :
                Alive(loops'[l]) =>
                    /\ loops'[l].id \in DOMAIN tasks
                    /\ loops'[l].pc = "first"
                    /\ ~loops'[l].cancelled
    /\ \A l \in LoopIds :
          /\ (loops'[l].cancelled /\ ~loops[l].cancelled) =>
                \/ running /\ ~running'
                \/ loops[l].id \in DOMAIN tasks /\ loops[l].id \notin DOMAIN tasks'
          /\ (Alive(loops[l]) /\ ~Alive(loops'[l])) => loops[l].cancelled
          /\ (loops[l].pc = "select" /\ loops'[l].pc = "exec") =>
                loops'[l].ticks = loops[l].ticks + 1
C9_StartLoops == []C9_LoopCounts /\ [][C9_StartStep]_vars

\* C9 witness: after Start with two registered tasks, both loops are alive
\* and not cancelled, and one is in its second execution, after one tick.
C9_Witness ==
    /\ running
    /\ Len(loops) = 2
    /\ loops[1].id = "a" /\ loops[2].id = "b"
    /\ \A l \in LoopIds : Alive(loops[l]) /\ ~loops[l].cancelled
                          /\ loops[l].id \in DOMAIN tasks
    /\ loops[1].pc = "exec" /\ loops[1].execs = 2 /\ loops[1].ticks = 1

\* C10: an execution that returns an error leaves its loop alive at the
\* select, and changes neither the running flag, the task set, the cancel
\* map nor the loop's cancellation; a loop whose last execution failed
\* returns only when cancelled.
C10_ErrorKeepsLoopStep ==
    \A l \in LoopIds :
        /\ ExecReturn(l, TRUE) =>
              /\ loops'[l].pc = "select"
              /\ loops'[l].cancelled = loops[l].cancelled
              /\ UNCHANGED <<running, tasks, taskCtxs, wg>>
        /\ (loops[l].pc = "exec" /\ loops'[l].pc # "exec") => loops'[l].pc = "select"
        /\ (loops[l].lastErr /\ Alive(loops[l]) /\ ~Alive(loops'[l])) => loops[l].cancelled
C10_ErrorKeepsLoop == [][C10_ErrorKeepsLoopStep]_vars

\* C10 witness: a loop whose first execution returned an error is executing
\* its task again, after the next tick, on a Running scheduler.
C10_Witness ==
    \E l \in LoopIds :
        /\ loops[l].lastErr
        /\ loops[l].pc = "exec"
        /\ loops[l].execs = 2
        /\ ~loops[l].cancelled
        /\ running

\* C11: no loop's progress depends on another loop's execution: whatever the
\* other loops are doing (executing, blocked in an execution, waiting), a
\* loop that has just started can run its first execution, a loop at its
\* select can serve its next tick, and an execution can return.
C11_LoopsIndependent ==
    \A l \in LoopIds :
        /\ loops[l].pc = "first" => ENABLED LoopFirst(l)
        /\ (loops[l].pc = "select" /\ loops[l].ticks < MaxTicks) => ENABLED SelectTick(l)
        /\ loops[l].pc = "exec" => ENABLED ExecReturn(l, FALSE)

\* C11 witness: on a Running scheduler the loop of one task is still inside
\* its first execution while the loop of another task has completed one
\* execution and has started the next on its own tick.
C11_Witness ==
    /\ running
    /\ \E l, m \in LoopIds :
        /\ loops[l].id # loops[m].id
        /\ loops[l].pc = "exec" /\ loops[l].execs = 1 /\ ~loops[l].cancelled
        /\ loops[m].pc = "exec" /\ loops[m].execs = 2 /\ ~loops[m].cancelled

\* C12: no scheduler lock is held while executions are awaited: whenever a
\* task execution is in flight the lock is free, so AddTask, RemoveTask,
\* Start, GetTask and ListTasks can proceed without waiting for it.
C12_NoLockAcrossExecution ==
    (\E l \in LoopIds : Executing(loops[l])) => mu = "free"

\* C13: Get never returns an error; Get of a key that was never Set returns
\* nothing; Get(k) right after Set(k, v, ttl) with ttl > 0 returns v; once
\* more than ttl has passed since the last Set of k, Get(k) returns nothing,
\* whether or not a sweep has removed the entry.
C13_GetInv ==
    \A k \in TaskIds :
        /\ Get(k).err = NoErr
        /\ k \notin DOMAIN lastSet => Get(k).value = Nil
        /\ (/\ k \in DOMAIN lastSet
            /\ lastSet[k].ttl > 0
            /\ now > lastSet[k].at + lastSet[k].ttl) => Get(k).value = Nil
C13_SetStep ==
    \A k \in TaskIds : \A v \in ItemLists : \A d \in Durations :
        (d > 0 /\ Set(k, v, d) /\ UNCHANGED now) => (Get(k).value)' = v
C13_GetAfterSet == []C13_GetInv /\ [][C13_SetStep]_vars

\* C13 witness: more than ttl has passed since the Set of a key whose
\* non-empty entry is still in the map (no sweep is in progress), and
\* Get returns nothing for it.
C13_Witness ==
    \E k \in DOMAIN items :
        /\ items[k].value # Nil
        /\ lastSet[k].ttl > 0
        /\ now > lastSet[k].at + lastSet[k].ttl
        /\ gc.pc = "wait"
        /\ Get(k).value = Nil

\* C14 as stated: an entry whose expiration timestamp is <= 0 is returned by
\* Get at every time; an entry whose expiration timestamp e is > 0 is
\* returned only while the clock is strictly before e.
C14_VisibleStrictlyBefore ==
    \A k \in DOMAIN items :
        items[k].value # Nil =>
            /\ items[k].expiration <= 0 => Get(k).value = items[k].value
            /\ items[k].expiration > 0 =>
                  (Get(k).value = items[k].value <=> now < items[k].expiration)

\* C14 amended: an entry whose expiration timestamp is <= 0 is returned by
\* Get at every time; an entry whose expiration timestamp e is > 0 is
\* returned while the clock is at or before e, and no longer once the clock
\* has passed e.
C14_VisibleUpToExpiration ==
    \A k \in DOMAIN items :
        items[k].value # Nil =>
            /\ items[k].expiration <= 0 => Get(k).value = items[k].value
            /\ items[k].expiration > 0 =>
                  (Get(k).value = items[k].value <=> now <= items[k].expiration)

\* C14 witness: the clock is exactly at the expiration timestamp of a
\* non-empty entry, and Get returns the entry.
C14_Witness ==
    \E k \in DOMAIN items :
        /\ items[k].value # Nil
        /\ items[k].expiration > 0
        /\ now = items[k].expiration
        /\ Get(k).value = items[k].value

\* C15: an entry stored with duration 0 has expiration timestamp 0, Get
\* returns it at every time, and it changes or leaves the map only by a
\* Set, Delete or Clear of its key, never by a sweep or by the clock; Set
\* stores the new value and the new expiration whatever entry the key had,
\* and leaves every other key as it was.
C15_NeverExpiringInv ==
    \A k \in DOMAIN items :
        items[k].expiration = 0 => Get(k).value = items[k].value
C15_SetStep ==
    /\ \A k \in TaskIds : \A v \in ItemLists : \A d \in Durations :
          Set(k, v, d) =>
              /\ items'[k] = [value |-> v, expiration |-> IF d > 0 THEN now + d ELSE 0]
              /\ d = 0 => (Get(k).value)' = v
              /\ DOMAIN items' = DOMAIN items \cup {k}
              /\ \A j \in DOMAIN items : j # k => items'[j] = items[j]
    /\ \A k \in DOMAIN items :
          (/\ items[k].expiration = 0
           /\ (k \notin DOMAIN items' \/ items'[k] # items[k])) =>
              /\ UNCHANGED gc
              /\ \/ \E v \in ItemLists : \E d \in Durations : Set(k, v, d)
                 \/ Delete(k)
                 \/ Clear
C15_SetReplaces == []C15_NeverExpiringInv /\ [][C15_SetStep]_vars

\* C15 witness: an entry set with duration 0 at an earlier time is still
\* returned by Get, after the entry of another key has left the map and
\* with no sweep in progress.
C15_Witness ==
    \E k \in DOMAIN items :
        /\ items[k].value # Nil
        /\ items[k].expiration = 0
        /\ lastSet[k].ttl = 0
        /\ now > lastSet[k].at + 1
        /\ gc.pc = "wait"
        /\ Get(k).value = items[k].value
        /\ \E j \in DOMAIN lastSet : j # k /\ lastSet[j].ttl > 0 /\ j \notin DOMAIN items

\* The Cache entry of a source name is warm: present, non-empty, not expired.
Warm(n) ==
    /\ n \in DOMAIN items
    /\ items[n].value # Nil
    /\ ~(items[n].expiration > 0 /\ now > items[n].expiration)

\* C16: FetchItem(name) for a name that is not registered returns the
\* source-not-found error, starts no fetch cycle (no fetch, no parse), and
\* changes neither the cache nor the subscribers' queues, whatever the
\* cache holds for the name.
C16_NotFoundStep ==
    \A n \in SourceNames :
        (FetchItem(n) /\ n \notin DOMAIN sources) =>
            /\ eret' = [err |-> ErrSourceNotFound, items |-> Nil]
            /\ UNCHANGED <<calls, items, queues, subscribers, arrays, sources>>
C16_FetchItemNotFound == [][C16_NotFoundStep]_vars

\* C16 witness: the source was unregistered while the cache holds a warm
\* entry for its name and a subscriber is registered; FetchItem has just
\* returned source-not-found, with the entry and the queue still there.
C16_Witness ==
    /\ "a" \notin DOMAIN sources
    /\ eret.err = ErrSourceNotFound
    /\ Warm("a")
    /\ SubscribersOf("a").len > 0
    /\ queues["t1"] # <<>>
    /\ NoCycle

\* C17: when FetchItem reads the cache and the entry of its source is warm,
\* it returns exactly the cached list at that step: no fetch or parse
\* follows, the cache is not written and nothing is sent to a subscriber;
\* and the write of a non-empty list by a fetch cycle leaves the entry
\* warm, so that the next FetchItem within the TTL does not fetch.
C17_WarmHitStep ==
    (calls["FetchItem"].pc = "get" /\ calls'["FetchItem"].pc # "get"
        /\ Warm(calls["FetchItem"].src.name)) =>
            /\ eret' = [err |-> NoErr, items |-> items[calls["FetchItem"].src.name].value]
            /\ calls'["FetchItem"] = Idle
            /\ UNCHANGED <<items, lastSet, queues, subscribers, arrays>>
C17_WriteStep ==
    \A p \in Callers : \A list \in ItemLists :
        (SourceYields(p, list) /\ list # Nil) => Warm(calls[p].src.name)'
C17_WarmHit == [][C17_WarmHitStep /\ C17_WriteStep]_vars

\* C17 witness: a FetchItem call has returned the cached list at a time
\* after the entry was written and within its TTL, with a subscriber
\* registered whose queue is empty.
C17_Witness ==
    /\ "a" \in DOMAIN sources
    /\ Warm("a")
    /\ now > lastSet["a"].at
    /\ eret = [err |-> NoErr, items |-> items["a"].value]
    /\ SubscribersOf("a").len > 0
    /\ queues["t1"] = <<>>
    /\ NoCycle

\* How many times target t occurs in a sequence of offers.
Offers(seq, t) == Cardinality({j \in 1..Len(seq) : seq[j] = t})

\* C18: when a FetchItem call that missed the cache returns after a
\* successful fetch and parse, it returns the parsed list, the cache holds
\* exactly that list under the source's name with TTL equal to the
\* source's interval in seconds, and every target subscribed to the name
\* throughout the fan-out has been offered the list exactly once.
C18_MissReturnStep ==
    LET c == calls["FetchItem"]
        n == c.src.name
    IN  (c.pc \in {"notify", "send"} /\ calls'["FetchItem"].pc = "idle") =>
            /\ eret' = [err |-> NoErr, items |-> c.items]
            /\ n \in DOMAIN items
            /\ items[n] = [value |-> c.items,
                           expiration |-> lastSet[n].at + c.src.interval * Second]
            /\ c.pc = "send" =>
                  \A t \in fanout["FetchItem"].stable :
                      Offers(Append(fanout["FetchItem"].offered,
                                    arrays[c.subs.arr][c.i]), t) = 1
C18_MissReturn == [][C18_MissReturnStep]_vars

\* C19: a failure of the source's fetch or parse ends the fetch cycle with
\* the cache entry, the subscriber slices and every queue as they were;
\* FetchItem returns the source's error, the scheduled execution returns
\* no error.
C19_FailureStep ==
    \A p \in Callers :
        (calls[p].pc = "fetch" /\ calls'[p].pc = "idle") =>
            /\ UNCHANGED <<items, lastSet, queues, subscribers, arrays, sources>>
            /\ eret'.items = Nil
            /\ p = "FetchItem" => eret'.err \in {ErrFetch, ErrParse}
            /\ p = "Execute" => eret'.err = NoErr
C19_FailureLeavesState == [][C19_FailureStep]_vars

\* C19 witness: after an earlier fetch cycle had written the cache and
\* filled the subscriber's queue, and the entry had expired, a FetchItem
\* call failed in the source: the expired entry and the queued batch are
\* still there.
C19_Witness ==
    /\ eret.err \in {ErrFetch, ErrParse}
    /\ "a" \in DOMAIN items
    /\ items["a"].value # Nil
    /\ ~Warm("a")
    /\ queues["t1"] = <<items["a"].value>>
    /\ NoCycle

\* C20: Subscribe fails with source-not-found and changes no subscriber
\* slice when the name is not registered, and succeeds when it is; and a
\* fan-out for the name offers the batch to every target that was
\* subscribed when it started and was not unsubscribed during it,
\* enqueueing it whenever the target's queue has room.
C20_SubscribeStep ==
    /\ \A n \in SourceNames : \A ch \in Targets :
          Subscribe(n, ch) =>
              IF n \notin DOMAIN sources
              THEN /\ eret'.err = ErrSourceNotFound
                   /\ UNCHANGED <<subscribers, arrays>>
              ELSE /\ eret'.err = NoErr
                   /\ Count(arrays', SubscribersOf(n)', ch)
                         = Count(arrays, SubscribersOf(n), ch) + 1
    /\ \A p \in Callers :
          (calls[p].pc = "send" /\ calls'[p].pc = "idle") =>
              \A t \in fanout[p].stable :
                  Offers(Append(fanout[p].offered, arrays[calls[p].subs.arr][calls[p].i]), t) >= 1
    /\ \A p \in Callers :
          (calls[p].pc = "send" /\ calls'[p] # calls[p]) =>
              LET ch == arrays[calls[p].subs.arr][calls[p].i]
              IN  Len(queues[ch]) < QueueCap => queues'[ch] = Append(queues[ch], calls[p].items)
C20_SubscribeDelivers == [][C20_SubscribeStep]_vars

\* C21: when Unsubscribe(name, target) returns, target is in no slot of the
\* slice of name, so that a fan-out that reads the slice afterwards has no
\* element to deliver to it, however often target had been subscribed; and
\* every other target is registered as often as before.
C21_UnsubscribeStep ==
    \A n \in SourceNames : \A ch \in Targets :
        Unsubscribe(n, ch) =>
            /\ Count(arrays', SubscribersOf(n)', ch) = 0
            /\ \A t \in Targets \ {ch} :
                  Count(arrays', SubscribersOf(n)', t) = Count(arrays, SubscribersOf(n), t)
C21_UnsubscribeStops == [][C21_UnsubscribeStep]_vars

\* C22: Unsubscribe(name, target) for a target that is not subscribed to
\* name returns no error and changes neither a slice header nor a backing
\* array, whether or not name is registered or has a slice at all.
C22_NoOpStep ==
    \A n \in SourceNames : \A ch \in Targets :
        (Unsubscribe(n, ch) /\ Count(arrays, SubscribersOf(n), ch) = 0) =>
            /\ eret'.err = NoErr
            /\ UNCHANGED <<subscribers, arrays, sources, queues>>
C22_UnsubscribeNoOp == [][C22_NoOpStep]_vars

\* C22 witness: the name is not registered any more, its slice still holds
\* t2 and not t1, the last call returned no error, and Unsubscribe of t1
\* for the name leaves the slice as it is.
C22_Witness ==
    /\ "a" \notin DOMAIN sources
    /\ "a" \in DOMAIN subscribers
    /\ Count(arrays, subscribers["a"], "t1") = 0
    /\ Count(arrays, subscribers["a"], "t2") = 1
    /\ eret.err = NoErr
    /\ ENABLED (Unsubscribe("a", "t1") /\ UNCHANGED <<subscribers, arrays>>)

\* C23: a fan-out never blocks.  While it is sending, its next round can
\* always be taken whatever the queues hold; a round enqueues the batch at
\* the target it reads when that queue has room, leaves every queue as it
\* is when the queue is full, and moves on to the next element or returns
\* after the last one; and when the fan-out returns, every target
\* subscribed from its start to its end has been offered the batch.
C23_NeverBlocks ==
    \A p \in Callers :
        calls[p].pc = "send" =>
            /\ calls[p].i \in 1..calls[p].subs.len
            /\ ENABLED notifySend(p)
C23_SendStep ==
    \A p \in Callers :
        (calls[p].pc = "send" /\ calls'[p] # calls[p]) =>
            LET c == calls[p]
                ch == arrays[c.subs.arr][c.i]
            IN  /\ IF Len(queues[ch]) < QueueCap
                   THEN queues' = [queues EXCEPT ![ch] = Append(@, c.items)]
                   ELSE queues' = queues
                /\ IF c.i < c.subs.len
                   THEN calls'[p] = [c EXCEPT !.i = c.i + 1]
                   ELSE /\ calls'[p] = Idle
                        /\ \A t \in fanout[p].stable :
                              Offers(Append(fanout[p].offered, ch), t) > 0
C23_FanoutNeverBlocks == []C23_NeverBlocks /\ [][C23_SendStep]_vars

\* C24: RegisterSource of a source whose name is registered returns the
\* source-exists error and changes neither the source map, the scheduler's
\* tasks and loops nor the subscriber slices; RegisterSource of a new name
\* on a stopped engine returns no error and changes nothing but the source
\* map, which gets the source under its name.
C24_RegisterStep ==
    \A src \in LifeSources :
        EngineRegisterSource(src) =>
            /\ src.name \in DOMAIN sources =>
                  /\ eret'.err = ErrSourceExists
                  /\ UNCHANGED <<sources, tasks, taskCtxs, loops, running, subscribers, arrays>>
            /\ (src.name \notin DOMAIN sources /\ ~erunning) =>
                  /\ eret'.err = NoErr
                  /\ sources' = Put(sources, src.name, src)
                  /\ UNCHANGED <<schedVars, subscribers, arrays, queues, lifeVars, cacheVars>>
C24_RegisterSource == [][C24_RegisterStep]_vars

\* C24 witness: on a running engine with a live loop and a subscriber for
\* source a, a RegisterSource has just failed with source-exists.
C24_Witness ==
    /\ eret.err = ErrSourceExists
    /\ erunning
    /\ "a" \in DOMAIN sources
    /\ "a" \in DOMAIN tasks
    /\ SubscribersOf("a").len = 1
    /\ \E l \in LoopIds : Alive(loops[l])

\* C25: RegisterSource of a new name on a running engine returns no error,
\* the scheduler then holds under the name the task of this source (its
\* name, its interval), and a new loop for it has been started, about to
\* execute; whatever calls came before.
C25_RegisterRunningStep ==
    \A src \in LifeSources :
        (EngineRegisterSource(src) /\ erunning /\ src.name \notin DOMAIN sources) =>
            /\ eret'.err = NoErr
            /\ src.name \in DOMAIN tasks'
            /\ tasks'[src.name] = crawlTask(src)
            /\ loops' = Append(loops, NewLoop(crawlTask(src)))
C25_RegisterWhileRunning == [][C25_RegisterRunningStep]_vars

\* C26: UnregisterSource of a name that is not registered returns
\* source-not-found and changes nothing; a successful UnregisterSource
\* leaves the scheduler without a task for the name; and an execution of a
\* task loop starts only for a name that is registered.
C26_UnregisterStep ==
    \A n \in TaskIds :
        EngineUnregisterSource(n) =>
            IF n \notin DOMAIN sources
            THEN /\ eret'.err = ErrSourceNotFound
                 /\ UNCHANGED <<sources, tasks, taskCtxs, loops>>
            ELSE /\ n \notin DOMAIN sources'
                 /\ n \notin DOMAIN tasks'
C26_ExecutionStep ==
    \A l \in LoopIds :
        (~Executing(loops[l]) /\ Executing(loops'[l])) => loops[l].id \in DOMAIN sources
C26_UnregisterDiscardsTask == [][C26_UnregisterStep /\ C26_ExecutionStep]_vars

\* C27: Engine.Start on a running engine and Engine.Stop on a stopped one
\* return no error and change neither flag, the source map, nor the
\* scheduler's tasks and loops; an Engine.Start that began on a stopped
\* engine returns no error with engine and scheduler running, and an
\* Engine.Stop that began on a running one returns no error with both
\* stopped, in every cycle.
C27_LifecycleStep ==
    /\ (EngineStart /\ erunning) =>
          /\ eret'.err = NoErr
          /\ UNCHANGED <<lifeVars, sources, tasks, taskCtxs, running, wg, mu, loops>>
    /\ (EngineStop /\ ~erunning) =>
          /\ eret'.err = NoErr
          /\ UNCHANGED <<lifeVars, sources, tasks, taskCtxs, running, wg, mu, loops>>
    /\ (ecalls["Start"].pc # "idle" /\ ecalls'["Start"].pc = "idle") =>
          /\ eret'.err = NoErr
          /\ erunning' /\ running'
    /\ (ecalls["Stop"].pc # "idle" /\ ecalls'["Stop"].pc = "idle") =>
          /\ eret'.err = NoErr
          /\ ~erunning' /\ ~running'
C27_StartStopIdempotent == [][C27_LifecycleStep]_vars

\* C27 witness: the engine is running for the second time (a Stop has
\* returned, and the loop of the first period has exited while the loop of
\* the second is alive), the last call returned no error, and a further
\* Start would change nothing.
C27_Witness ==
    /\ NoCalls
    /\ erunning /\ running
    /\ ecancelled
    /\ eret.err = NoErr
    /\ Len(loops) = 2
    /\ ~Alive(loops[1]) /\ Alive(loops[2])
    /\ ENABLED (EngineStart /\ UNCHANGED <<lifeVars, schedVars>>)

\* C28: when an Engine.Start that began on a stopped engine returns, the
\* scheduler is running and, for every registered source, holds the task
\* of that source and has exactly one live, uncancelled loop for it; also
\* when an AddTask of the range had failed.
C28_StartStep ==
    (ecalls["Start"].pc = "start" /\ ecalls'["Start"].pc = "idle") =>
        /\ running'
        /\ \A n \in DOMAIN sources :
              /\ n \in DOMAIN tasks'
              /\ tasks'[n] = crawlTask(sources[n])
              /\ Cardinality({l \in 1..Len(loops') :
                                 /\ loops'[l].id = n
                                 /\ Alive(loops'[l])
                                 /\ ~loops'[l].cancelled}) = 1
C28_StartStartsEverySource == [][C28_StartStep]_vars

\* C29: at no time are more work functions running than p.maxWorkers, nor
\* more than there are work functions; no work function is called twice;
\* and when Execute returns with the context not cancelled, every work
\* function has been called exactly once and has returned, and the result
\* at each index holds the value and the error of the work function of
\* that index, and the index.
C29_PoolExecute ==
    /\ Cardinality({w \in DOMAIN workers : workers[w].pc = "run"}) <= MaxWorkers
    /\ Cardinality({w \in DOMAIN workers : workers[w].pc = "run"}) <= Cardinality(DOMAIN works)
    /\ \A j \in DOMAIN ran : ran[j] <= 1
    /\ (main.pc = "returned" /\ ~ctxDone) =>
          /\ DOMAIN results = DOMAIN works
          /\ \A w \in DOMAIN workers : workers[w].pc = "done"
          /\ \A j \in DOMAIN works :
                /\ ran[j] = 1
                /\ results[j] = [Value |-> works[j].value, Err |-> works[j].err, Index |-> j]

\* C29 witness: Execute has returned from three work functions, more than
\* the pool has workers, one of which failed, with the context not
\* cancelled.
C29_Witness ==
    /\ main.pc = "returned"
    /\ ~ctxDone
    /\ Cardinality(DOMAIN works) = 3
    /\ works[1].err # NoErr
    /\ works[2].err = NoErr
    /\ results[2].Index = 2

\* C30: with a FetchItem call and a scheduled execution of one source in
\* progress at the same time, neither waits for the other (the next step
\* of each can always be taken); the Cache entry changes only by the write
\* of one of them, which stores its own list with the expiration of its
\* own write time; and during a fan-out of one of them while the other is
\* in progress no target is offered the batch more than once.
C30_NoWaiting ==
    \A p \in Callers :
        /\ calls[p].pc = "get" => ENABLED FetchItemGet
        /\ calls[p].pc = "fetch" => ENABLED SourceYields(p, <<"x">>)
        /\ calls[p].pc = "notify" => ENABLED notifySubscribers(p)
        /\ calls[p].pc = "send" => ENABLED notifySend(p)
C30_WriteStep ==
    /\ \A p \in Callers :
          (calls[p].pc = "fetch" /\ calls'[p].pc = "notify") =>
              items'[calls[p].src.name] =
                  [value |-> calls'[p].items,
                   expiration |-> now + calls[p].src.interval * Second]
    /\ items' # items =>
          \E p \in Callers : calls[p].pc = "fetch" /\ calls'[p].pc = "notify"
C30_OfferStep ==
    \A p \in Callers :
        (calls[p].pc = "send" /\ calls'[p] # calls[p] /\ ~\E q \in Callers : calls[q].pc = "idle") =>
            \A t \in Targets :
                Offers(Append(fanout[p].offered, arrays[calls[p].subs.arr][calls[p].i]), t) <= 1
C30_ConcurrentMiss == []C30_NoWaiting /\ [][C30_WriteStep /\ C30_OfferStep]_vars

\* An entry of the map has expired at time t.
C31_ExpiredAt(e, t) == e.expiration > 0 /\ t > e.expiration

\* C31: a sweep (deleteExpired under the lock) removes exactly the entries
\* whose expiration timestamp is > 0 and had passed at the time the sweep
\* read, leaves every other entry unchanged, and is invisible to readers:
\* the time the sweep read is never later than the clock, every entry it
\* removes has expired for Get at the clock's time (and so at every later
\* time), and Get returns for every key the same result after the sweep as
\* before it.
C31_SweepClock == gc.pc = "sweep" => gc.now <= now
C31_SweepStep ==
    (gc.pc = "sweep" /\ gc'.pc = "wait") =>
        /\ DOMAIN items' = {k \in DOMAIN items : ~C31_ExpiredAt(items[k], gc.now)}
        /\ \A k \in DOMAIN items' : items'[k] = items[k]
        /\ \A k \in DOMAIN items \ DOMAIN items' : C31_ExpiredAt(items[k], now)
        /\ \A k \in TaskIds : Get(k)' = Get(k)
C31_SweepInvisible == []C31_SweepClock /\ [][C31_SweepStep]_vars

\* C31 witness: after a sweep, an entry set with a duration has left the
\* map once its time had passed, an entry that expired after the sweep read
\* the clock is still in the map and Get returns nothing for it, and a
\* never-expiring entry would be returned.
C31_Witness ==
    /\ gc.pc = "wait"
    /\ \E k \in DOMAIN lastSet, j \in DOMAIN items :
          /\ k \notin DOMAIN items
          /\ lastSet[k].ttl > 0
          /\ now > lastSet[k].at + lastSet[k].ttl
          /\ j # k
          /\ C31_ExpiredAt(items[j], now)
          /\ items[j].value # Nil
          /\ Get(j).value = Nil

\* C32: when the context given to Execute is cancelled while Execute is
\* running, no send is attempted on the work channel after the watcher has
\* closed it: the sending loop never panics, and whenever it still has an
\* index to send after a cancellation the channel is open or the loop takes
\* the cancellation case.
C32_SendStep ==
    (main.pc = "send" /\ main'.pc # "send" /\ main.i \in DOMAIN works) => ~workChan.closed
C32_NoSendOnClosed == [](main.pc # "panic") /\ [][C32_SendStep]_vars

\* C33: while the scheduler is Running, every live task loop that has not
\* been cancelled has its cancel function stored in the cancel map under
\* its task identifier; and the exit cleanup of a loop never takes from
\* the map the cancel function of another loop that is live and not
\* cancelled.
C33_CancelStored ==
    running => \A l \in LoopIds :
                  (Alive(loops[l]) /\ ~loops[l].cancelled)
                      => /\ loops[l].id \in DOMAIN taskCtxs
                         /\ taskCtxs[loops[l].id] = l
C33_CleanupStep ==
    \A l \in LoopIds :
        (loops[l].pc = "deferred" /\ loops'[l].pc = "exited")
            => \A id \in DOMAIN taskCtxs \ DOMAIN taskCtxs' :
                  taskCtxs[id] = l \/ ~Alive(loops[taskCtxs[id]]) \/ loops[taskCtxs[id]].cancelled
C33_CancelMapComplete == []C33_CancelStored /\ [][C33_CleanupStep]_vars

\* How often the fan-out of caller p, at its position in the slice header
\* it read, will still offer its batch to target t.
C36_ToOffer(arrs, c, t) ==
    Cardinality({j \in c.i..c.subs.len : arrs[c.subs.arr][j] = t})

\* C36: an Unsubscribe(name, target) during a fan-out of name changes, for
\* no other target, how often the fan-out will still offer its batch to
\* it: no different target is skipped or offered the batch a second time.
C36_UnsubscribeStep ==
    \A n \in SourceNames : \A ch \in Targets : \A p \in Callers :
        (Unsubscribe(n, ch) /\ calls[p].pc = "send" /\ calls[p].src.name = n) =>
            \A t \in Targets \ {ch} :
                C36_ToOffer(arrays', calls[p], t) = C36_ToOffer(arrays, calls[p], t)
C36_FanoutUnderUnsubscribe == [][C36_UnsubscribeStep]_vars

\* C37: a RegisterSource or UnregisterSource call that returns an error
\* leaves the source map unchanged, also when the error is the one the
\* scheduler's AddTask or RemoveTask returned on a running engine.
C37_ErrorStep ==
    /\ \A src \in LifeSources :
          (EngineRegisterSource(src) /\ eret'.err # NoErr) => sources' = sources
    /\ \A n \in TaskIds :
          (EngineUnregisterSource(n) /\ eret'.err # NoErr) => sources' = sources
C37_ErrorLeavesSources == [][C37_ErrorStep]_vars

\* C38: when a scheduled execution starts while the engine is Running, the
\* cancellation signal it passes to the source's fetch (e.ctx) has not been
\* cancelled, in the first Running period and in every later one.
C38_ExecutionStep ==
    \A l \in LoopIds :
        (erunning /\ running /\ ~Executing(loops[l]) /\ Executing(loops'[l]))
            => ~ecancelled
C38_FetchSignalLive == [][C38_ExecutionStep]_vars

\* The subscriber registrations, the queues and the Cache are unchanged.
C39_Kept == UNCHANGED <<subscribers, arrays, queues, items, lastSet>>

\* C39: UnregisterSource(name) changes nothing but the source map (and the
\* returned error): the subscriber slice of name and the Cache entry of
\* name stay as they are, as they do when name is registered again; a
\* fan-out of the source registered again reads the slice header as it
\* is then, so the earlier subscribers are in it, and a FetchItem call
\* reads the Cache entry as it is then, whichever source wrote it.
C39_UnregisterStep ==
    /\ \A n \in SourceNames :
          UnregisterSource(n) =>
              /\ C39_Kept
              /\ sources' = Del(sources, n)
    /\ \A src \in Source : RegisterSource(src) => C39_Kept
    /\ \A q \in Callers :
          (calls[q].pc = "notify" /\ calls'[q].pc = "send")
              => calls'[q].subs = SubscribersOf(calls[q].src.name)
    /\ (calls["FetchItem"].pc = "get" /\ calls'["FetchItem"].pc = "idle")
          => eret'.items = Get(calls["FetchItem"].src.name).value
C39_UnregisterKeeps == [][C39_UnregisterStep]_vars

\* C39 witness: the name has been unregistered (it is not in the source
\* map, and only a registered name can be subscribed to), and its
\* subscriber and its unexpired, non-empty Cache entry are still there.
C39_Witness ==
    /\ "a" \notin DOMAIN sources
    /\ SubscribersOf("a").len = 1
    /\ arrays[SubscribersOf("a").arr][1] = "t1"
    /\ Warm("a")
    /\ now > lastSet["a"].at
    /\ NoCycle

\* The Cache holds, under name n, an unexpired entry with an empty list.
C40_EmptyEntry(n) ==
    /\ n \in DOMAIN items
    /\ items[n].value = Nil
    /\ ~(items[n].expiration > 0 /\ now > items[n].expiration)

\* C40: a FetchItem call that finds an unexpired entry with an empty list
\* goes on to fetch and parse and returns nothing from the Cache; a parse
\* that yields the empty list writes it to the Cache with a fresh
\* expiration and fans it out, and a target with room in its queue gets
\* the empty batch.
C40_EmptyMissStep ==
    /\ (calls["FetchItem"].pc = "get" /\ calls'["FetchItem"].pc # "get"
          /\ C40_EmptyEntry(calls["FetchItem"].src.name))
            => /\ calls'["FetchItem"] = [calls["FetchItem"] EXCEPT !.pc = "fetch"]
               /\ UNCHANGED <<eret, items, queues>>
    /\ \A p \in Callers :
          SourceYields(p, Nil) =>
              /\ items'[calls[p].src.name] =
                     [value |-> Nil, expiration |-> now + calls[p].src.interval * Second]
              /\ calls'[p].pc = "notify"
              /\ calls'[p].items = Nil
    /\ \A p \in Callers :
          (calls[p].pc = "send" /\ calls[p].items = Nil /\ calls'[p] # calls[p]) =>
              LET ch == arrays[calls[p].subs.arr][calls[p].i]
              IN  (ch # NoTarget /\ Len(queues[ch]) < QueueCap)
                      => queues'[ch] = Append(queues[ch], Nil)
C40_EmptyIsMiss == [][C40_EmptyMissStep]_vars

\* C40 witness: a FetchItem call has missed on an empty entry written at
\* this very time and is about to fetch again, and the subscriber holds
\* the empty batch of the earlier cycle.
C40_Witness ==
    /\ calls["FetchItem"].pc = "fetch"
    /\ C40_EmptyEntry("a")
    /\ lastSet["a"].at = now
    /\ items["a"].expiration > now
    /\ queues["t1"] = <<Nil>>

\* C35: whenever no Engine.Start or Engine.Stop call is in progress the
\* engine's running flag equals the scheduler's, whatever the interleaving
\* of a Start call with a Stop call; and no Start or Stop call returns
\* ErrSchedulerRunning or ErrSchedulerStopped.
C35_FlagsAgree ==
    (ecalls["Start"].pc = "idle" /\ ecalls["Stop"].pc = "idle") => erunning = running
C35_ReturnStep ==
    \A c \in {"Start", "Stop"} :
        (ecalls[c].pc # "idle" /\ ecalls'[c].pc = "idle")
            => eret'.err \notin {ErrSchedulerRunning, ErrSchedulerStopped}
C35_StartStopConsistent == []C35_FlagsAgree /\ [][C35_ReturnStep]_vars

\* An Engine.Stop call waits in the scheduler's wg.Wait() and every task
\* loop that is still alive has been cancelled.
C34_StopWaits ==
    /\ ecalls["Stop"].pc = "wait"
    /\ \A l \in LoopIds : Alive(loops[l]) => loops[l].cancelled

\* C34: with sources whose fetch and parse return, an Engine.Stop call
\* that waits for the in-flight executions of cancelled task loops
\* eventually returns, whatever other Engine calls are in progress.
C34_StopReturns == C34_StopWaits ~> (ecalls["Stop"].pc = "idle")

====
